---- MODULE Spec2Model ----
(***************************************************************************)
(* Model of the intervals-icu gateway: the authenticated request executor  *)
(* (intervalsApi), the access gates (requireMcpApiKey, checkWebhookAuth)   *)
(* and the webhook action router (POST /api/webhook).                      *)
(*                                                                         *)
(* Strings are sequences of one-character strings, so that trim, slice,    *)
(* startsWith, toLowerCase and the date patterns are computed as the code  *)
(* computes them.  A JSON value is a sequence whose head is its type tag   *)
(* ("str", "num", "true", "false", "null", "arr", "obj") and whose tail    *)
(* is the text of the scalar.  A JSON object body is a function from the   *)
(* keys it holds to JSON values.                                           *)
(***************************************************************************)
EXTENDS Integers, Sequences, FiniteSets, TLC

\* ------------------------------------------------------------------------
\* Bounds
\* ------------------------------------------------------------------------
\* upper bound on the number of extra (non-routing) keys of a webhook body
MaxExtraKeys == 2
\* upper bound on the whitespace padding put around generated strings
MaxPad == 1

\* ------------------------------------------------------------------------
\* Strings
\* ------------------------------------------------------------------------
\* an absent header / unset environment variable / undefined property
Null == <<"NULL">>

WhiteSpace == {" ", "\t"}
Digits == {"0", "1", "2", "3", "4", "5", "6", "7", "8", "9"}

RECURSIVE TrimStart(_)
TrimStart(s) ==
    IF s # <<>> /\ Head(s) \in WhiteSpace THEN TrimStart(Tail(s)) ELSE s

RECURSIVE TrimEnd(_)
TrimEnd(s) ==
    IF s # <<>> /\ s[Len(s)] \in WhiteSpace
    THEN TrimEnd(SubSeq(s, 1, Len(s) - 1)) ELSE s

\* String.prototype.trim
Trim(s) == TrimEnd(TrimStart(s))

\* String.prototype.startsWith
StartsWith(s, p) == Len(s) >= Len(p) /\ SubSeq(s, 1, Len(p)) = p

\* String.prototype.slice(n) for 0 <= n
Slice(s, n) == SubSeq(s, n + 1, Len(s))

LowerChar(c) ==
    CASE c = "A" -> "a" [] c = "B" -> "b" [] c = "C" -> "c" [] c = "D" -> "d"
      [] c = "E" -> "e" [] c = "L" -> "l" [] c = "M" -> "m" [] c = "O" -> "o"
      [] c = "P" -> "p" [] c = "R" -> "r" [] c = "T" -> "t" [] c = "U" -> "u"
      [] c = "V" -> "v" [] OTHER -> c

\* String.prototype.toLowerCase (over the letters the model uses)
ToLowerCase(s) == [i \in 1..Len(s) |-> LowerChar(s[i])]

\* JavaScript truthiness of a string-or-null value
Truthy(s) == s # Null /\ s # <<>>

BearerPrefix == <<"B", "e", "a", "r", "e", "r", " ">>

\* ------------------------------------------------------------------------
\* Access gates
\* ------------------------------------------------------------------------
\* route.ts getMcpKeyFromRequest: the trimmed bearer value when the
\* Authorization header starts with "Bearer ", else the trimmed
\* X-MCP-API-Key header, else null
getMcpKeyFromRequest(h) ==
    IF h.Authorization # Null /\ StartsWith(h.Authorization, BearerPrefix)
    THEN Trim(Slice(h.Authorization, 7))
    ELSE IF h.XMcpApiKey # Null THEN Trim(h.XMcpApiKey) ELSE Null

\* the tool gate denying by default when no key is configured
McpGateAllows_DenyDefault(e, h) ==
    LET expected == e.MCP_API_KEY
        sent == getMcpKeyFromRequest(h)
    IN  Truthy(expected) /\ Truthy(sent) /\ sent = expected

\* route.ts requireMcpApiKey: TRUE when next(request) is called,
\* FALSE when the 401 response is returned
McpGateAllows(e, h) ==
    LET expected == e.MCP_API_KEY
        sent == getMcpKeyFromRequest(h)
    IN  IF ~Truthy(expected) THEN TRUE
        ELSE ~(~Truthy(sent) \/ sent # expected)

\* webhook: process.env.WEBHOOK_SECRET || process.env.MCP_API_KEY
WebhookSecret(e) ==
    IF Truthy(e.WEBHOOK_SECRET) THEN e.WEBHOOK_SECRET ELSE e.MCP_API_KEY

\* the webhook gate comparing the bearer value without trimming it
checkWebhookAuth_NoTrim(e, h) ==
    LET secret == WebhookSecret(e)
    IN  IF ~Truthy(secret) THEN TRUE
        ELSE IF h.Authorization # Null /\ StartsWith(h.Authorization, BearerPrefix)
             THEN Slice(h.Authorization, 7) = secret
             ELSE h.XWebhookSecret = secret

\* webhook checkWebhookAuth
checkWebhookAuth(e, h) ==
    LET secret == WebhookSecret(e)
    IN  IF ~Truthy(secret) THEN TRUE
        ELSE IF h.Authorization # Null /\ StartsWith(h.Authorization, BearerPrefix)
             THEN Trim(Slice(h.Authorization, 7)) = secret
             ELSE h.XWebhookSecret = secret

\* ------------------------------------------------------------------------
\* Payload normalization
\* ------------------------------------------------------------------------
\* /^\d{4}-\d{2}-\d{2}/ : the first ten characters are a yyyy-MM-dd date
DatePrefix(s) ==
    /\ Len(s) >= 10
    /\ \A i \in {1, 2, 3, 4, 6, 7, 9, 10} : s[i] \in Digits
    /\ s[5] = "-"
    /\ s[8] = "-"

\* /^\d{4}-\d{2}-\d{2}T/
MatchesDateT(s) == DatePrefix(s) /\ Len(s) >= 11 /\ s[11] = "T"

\* /^\d{4}-\d{2}-\d{2}$/
MatchesBareDate(s) == DatePrefix(s) /\ Len(s) = 10

TimeSuffix == <<"T", "0", "0", ":", "0", "0", ":", "0", "0">>

\* the normalization leaving a bare date as it is
normalizeStartDate_NoSuffix(v) ==
    IF v = Null \/ Head(v) # "str" THEN Null
    ELSE LET s == Trim(Tail(v))
         IN  IF s = <<>> THEN Null ELSE s

\* normalizeStartDate on a JSON value (Null for undefined); the result is
\* a string or Null
normalizeStartDate(v) ==
    IF v = Null \/ Head(v) # "str" THEN Null
    ELSE LET s == Trim(Tail(v))
         IN  IF s = <<>> THEN Null
             ELSE IF MatchesDateT(s) THEN s
             ELSE IF MatchesBareDate(s) THEN s \o TimeSuffix
             ELSE s

\* ------------------------------------------------------------------------
\* State
\* ------------------------------------------------------------------------
VARIABLES
    env,    \* process.env: MCP_API_KEY, WEBHOOK_SECRET, INTERVALS_ICU_API_KEY
    req,    \* the inbound request being handled
    pc,     \* position of the handler / executor in its code
    resp,   \* the HTTP response returned to the client (status 0: none yet)
    steps,  \* the stages the handler has gone through, in order
    calls,  \* the upstream HTTP calls issued so far, in order
    ex,     \* intervalsApi locals: path, attempt, responses seen, delays, outcome
    wh,     \* webhook POST locals
    nm,     \* normalizeStartDate input and result
    dl,     \* intervalsApiDownload locals: path, response seen, outcome
    ag,     \* aggregation pipeline locals
    peer    \* intervalsApi locals of a second, concurrent request

vars == <<env, req, pc, resp, steps, calls, ex, wh, nm, dl, ag, peer>>

NoReq == [surface |-> "none"]
Resp(st, err, up, det) ==
    [status |-> st, error |-> err, upstatus |-> up, detail |-> det]
NoResp == Resp(0, "", 0, "")
NoEx == [path |-> "", attempt |-> 0, seen |-> <<>>, delays |-> <<>>,
         outcome |-> [kind |-> "none", tag |-> "", status |-> 0, data |-> ""]]
\* no upstream answer: none awaited yet, or the fetch itself failed
NoUp == [status |-> 0, ctype |-> "", body |-> ""]
NoWh == [parsed |-> FALSE, body |-> <<>>, action |-> <<>>,
         athleteId |-> Null, eventId |-> Null, up |-> NoUp]
NoNm == [in |-> Null, out |-> Null]
NoPeer == [pc |-> "off", path |-> "", attempt |-> 0, seen |-> <<>>,
           delays |-> <<>>, calls |-> <<>>,
           since |-> [pc |-> "", attempt |-> 0],
           outcome |-> [kind |-> "none", tag |-> "", status |-> 0, data |-> ""]]
NoDl == [path |-> "", seen |-> <<>>,
         outcome |-> [kind |-> "none", tag |-> "", status |-> 0, data |-> ""]]
NoAg == [tool |-> "none", calls |-> <<>>, n |-> 0, todo |-> 0, done |-> 0,
         event |-> FALSE, linked |-> Null, completed |-> "",
         sub |-> <<"idle", "idle", "idle">>, parts |-> {},
         outcome |-> "none"]

ApiKey == <<"k">>

Last(q) == q[Len(q)]

\* ------------------------------------------------------------------------
\* Upstream service
\* ------------------------------------------------------------------------
\* the statuses the upstream may answer with
SuccessStatuses == {200, 201}
ErrorStatuses == {304, 404, 500, 503}

\* response bodies: two well-formed JSON texts and one that is not JSON
UpBodies == {"j1", "j2", "garbage"}

UpContentTypes == {"application/json", "text/csv; charset=utf-8", "none"}

\* the answers of the upstream: a decodable or undecodable success, an
\* empty 204, an error with its text, a 429
UpstreamResponses ==
    [status : SuccessStatuses, ctype : UpContentTypes, body : UpBodies]
      \cup [status : {204}, ctype : {"none"}, body : {""}]
      \cup [status : ErrorStatuses, ctype : {"application/json"},
            body : {"j1", "garbage"}]
      \cup [status : {429}, ctype : {"application/json"}, body : {"j1"}]

\* Response.ok
Ok(r) == r.status >= 200 /\ r.status <= 299

\* JSON.parse of an upstream body: the document, or "SyntaxError"
JsonParse(b) ==
    CASE b = "j1" -> "doc1" [] b = "j2" -> "doc2" [] OTHER -> "SyntaxError"

\* contentType?.includes('text/csv')
IsCsv(ct) == ct = "text/csv; charset=utf-8"

\* ------------------------------------------------------------------------
\* intervalsApi (the authenticated request executor)
\* ------------------------------------------------------------------------
MaxAttempts == 3

Paths == {"/athlete/0/calendars", "/athlete/0/events"}

Outcome(k, t, st, d) == [kind |-> k, tag |-> t, status |-> st, data |-> d]

\* a delay growing by one second per attempt
BackoffMs_Linear(attempt) == (attempt + 1) * 1000

\* Math.pow(2, attempt) * 1000
BackoffMs(attempt) == (2 ^ attempt) * 1000

\* the decoding without its CSV branch
ExecSettle_NoCsv(r, path) ==
    IF ~Ok(r) THEN Outcome("throw", "upstream", r.status, r.body)
    ELSE IF r.status = 204 THEN Outcome("return", "empty", r.status, "")
    ELSE IF JsonParse(r.body) = "SyntaxError"
         THEN Outcome("throw", "syntax", r.status, r.body)
         ELSE Outcome("return", "json", r.status, JsonParse(r.body))

\* what the loop body does with a response that is not a 429
ExecSettle(r, path) ==
    IF ~Ok(r) THEN Outcome("throw", "upstream", r.status, r.body)
    ELSE IF r.status = 204 THEN Outcome("return", "empty", r.status, "")
    ELSE IF IsCsv(r.ctype) THEN Outcome("return", "csv", r.status, r.body)
    ELSE IF JsonParse(r.body) = "SyntaxError"
         THEN Outcome("throw", "syntax", r.status, r.body)
         ELSE Outcome("return", "json", r.status, JsonParse(r.body))

\* retrying server errors as well as rate limiting
IsRateLimited_Or5xx(r) == r.status = 429 \/ r.status >= 500

\* the 429 test of the loop body
IsRateLimited(r) == r.status = 429

\* the loop running one attempt too many
LoopContinues_Inclusive(attempt) == attempt <= MaxAttempts

\* the loop condition attempt < 3
LoopContinues(attempt) == attempt < MaxAttempts

\* getConfig(): throws when INTERVALS_ICU_API_KEY is missing
ExecConfig ==
    /\ pc = "ex_config"
    /\ IF ~Truthy(env.INTERVALS_ICU_API_KEY)
       THEN /\ ex' = [ex EXCEPT !.outcome = Outcome("throw", "config", 0, "")]
            /\ pc' = "ex_done"
       ELSE /\ ex' = ex
            /\ pc' = "ex_loop"
    /\ steps' = Append(steps, "config")
    /\ UNCHANGED <<env, req, resp, calls, wh, nm, dl, ag, peer>>

\* one iteration of the loop up to the decision on the response
ExecFetch ==
    /\ pc = "ex_loop"
    /\ LoopContinues(ex.attempt)
    /\ calls' = Append(calls, [method |-> "GET", path |-> ex.path,
                               hasBody |-> FALSE, body |-> <<>>])
    /\ \/ \E r \in UpstreamResponses :
            IF IsRateLimited(r)
            THEN /\ ex' = [ex EXCEPT !.seen = Append(@, r)]
                 /\ pc' = "ex_sleep"
            ELSE /\ ex' = [ex EXCEPT !.seen = Append(@, r),
                                     !.outcome = ExecSettle(r, ex.path)]
                 /\ pc' = "ex_done"
       \/ \* fetch rejects (network failure)
          /\ ex' = [ex EXCEPT !.outcome = Outcome("throw", "network", 0, "")]
          /\ pc' = "ex_done"
    /\ UNCHANGED <<env, req, resp, steps, wh, nm, dl, ag, peer>>

\* await new Promise(r => setTimeout(r, ...)); continue  (attempt++)
ExecBackoff ==
    /\ pc = "ex_sleep"
    /\ ex' = [ex EXCEPT !.delays = Append(@, BackoffMs(ex.attempt)),
                        !.attempt = @ + 1]
    /\ pc' = "ex_loop"
    /\ UNCHANGED <<env, req, resp, steps, calls, wh, nm, dl, ag, peer>>

\* throw new Error(`Failed after retries: ${path}`)
ExecExhausted ==
    /\ pc = "ex_loop"
    /\ ~LoopContinues(ex.attempt)
    /\ ex' = [ex EXCEPT !.outcome = Outcome("throw", "exhausted", 0, ex.path)]
    /\ pc' = "ex_done"
    /\ UNCHANGED <<env, req, resp, steps, calls, wh, nm, dl, ag, peer>>

NextExec == ExecConfig \/ ExecFetch \/ ExecBackoff \/ ExecExhausted

\* a direct invocation of intervalsApi(path)
InitExec ==
    /\ env \in [MCP_API_KEY : {Null}, WEBHOOK_SECRET : {Null},
                INTERVALS_ICU_API_KEY : {Null, <<>>, ApiKey}]
    /\ req = [surface |-> "exec"]
    /\ pc = "ex_config"
    /\ \E p \in Paths : ex = [NoEx EXCEPT !.path = p]
    /\ nm = NoNm

\* ------------------------------------------------------------------------
\* A second request served by the same process while intervalsApi runs
\* ------------------------------------------------------------------------
\* the answers the second request's upstream call may get
PeerResponses ==
    {r \in UpstreamResponses :
        /\ r.status \in {200, 429, 500}
        /\ r.ctype = "application/json"
        /\ r.body = "j1"}

\* a backoff that keeps the thread instead of awaiting the timer
HoldsThread_BusyWait(p) == p = "ex_sleep"

\* positions at which a request keeps the thread to itself: every wait of
\* intervalsApi is an await (fetch, setTimeout), so there is none
HoldsThread(p) == FALSE

\* the second request enters intervalsApi: getConfig(), its own locals
PeerConfig ==
    /\ "concurrent" \in DOMAIN req
    /\ peer.pc = "off"
    /\ ~HoldsThread(pc)
    /\ peer' = [peer EXCEPT !.pc = "p_loop", !.path = "/athlete/0/wellness",
                            !.since = [pc |-> pc, attempt |-> ex.attempt]]
    /\ UNCHANGED <<env, req, pc, resp, steps, calls, ex, wh, nm, dl, ag>>

\* one iteration of the second request's loop
PeerFetch ==
    /\ peer.pc = "p_loop"
    /\ ~HoldsThread(pc)
    /\ LoopContinues(peer.attempt)
    /\ \E r \in PeerResponses :
          LET c == [method |-> "GET", path |-> peer.path,
                    hasBody |-> FALSE, body |-> <<>>]
          IN  IF IsRateLimited(r)
              THEN peer' = [peer EXCEPT !.calls = Append(@, c),
                                        !.seen = Append(@, r),
                                        !.pc = "p_sleep"]
              ELSE peer' = [peer EXCEPT !.calls = Append(@, c),
                                        !.seen = Append(@, r),
                                        !.outcome = ExecSettle(r, peer.path),
                                        !.pc = "p_done"]
    /\ UNCHANGED <<env, req, pc, resp, steps, calls, ex, wh, nm, dl, ag>>

\* the second request's own backoff
PeerBackoff ==
    /\ peer.pc = "p_sleep"
    /\ ~HoldsThread(pc)
    /\ peer' = [peer EXCEPT !.delays = Append(@, BackoffMs(peer.attempt)),
                            !.attempt = @ + 1,
                            !.pc = "p_loop"]
    /\ UNCHANGED <<env, req, pc, resp, steps, calls, ex, wh, nm, dl, ag>>

\* the second request out of attempts
PeerExhausted ==
    /\ peer.pc = "p_loop"
    /\ ~HoldsThread(pc)
    /\ ~LoopContinues(peer.attempt)
    /\ peer' = [peer EXCEPT
                  !.outcome = Outcome("throw", "exhausted", 0, peer.path),
                  !.pc = "p_done"]
    /\ UNCHANGED <<env, req, pc, resp, steps, calls, ex, wh, nm, dl, ag>>

NextPeer == PeerConfig \/ PeerFetch \/ PeerBackoff \/ PeerExhausted

\* intervalsApi(path) invoked while a second request may arrive
InitConcurrent ==
    /\ env = [MCP_API_KEY |-> Null, WEBHOOK_SECRET |-> Null,
              INTERVALS_ICU_API_KEY |-> ApiKey]
    /\ req = [surface |-> "exec", concurrent |-> TRUE]
    /\ pc = "ex_config"
    /\ ex = [NoEx EXCEPT !.path = "/athlete/0/events"]
    /\ nm = NoNm

\* ------------------------------------------------------------------------
\* Binary download: intervalsApiDownload(path)
\* ------------------------------------------------------------------------
DownloadPaths ==
    {"/athlete/0/events/e1/download.zwo", "/athlete/0/events/e1/download.erg"}

\* Buffer.from(buf).toString('base64')
Base64(body) == <<"base64", body>>

\* response.headers.get('content-type') || 'application/octet-stream'
DownloadContentType(r) ==
    IF r.ctype \in {"none", ""} THEN "application/octet-stream" ELSE r.ctype

\* the result of the one response: the encoded bytes, or the thrown error
DownloadSettle(r) ==
    IF ~Ok(r) THEN Outcome("throw", "upstream", r.status, r.body)
    ELSE Outcome("return", DownloadContentType(r), r.status, Base64(r.body))

\* getConfig(): throws when INTERVALS_ICU_API_KEY is missing
DownloadConfig ==
    /\ pc = "dl_config"
    /\ IF ~Truthy(env.INTERVALS_ICU_API_KEY)
       THEN /\ dl' = [dl EXCEPT !.path = req.path,
                                !.outcome = Outcome("throw", "config", 0, "")]
            /\ pc' = "dl_done"
       ELSE /\ dl' = [dl EXCEPT !.path = req.path]
            /\ pc' = "dl_fetch"
    /\ steps' = Append(steps, "config")
    /\ UNCHANGED <<env, req, resp, calls, ex, wh, nm, ag, peer>>

\* the fetch asked again while the answer is a 429
DownloadFetch_Retry429 ==
    /\ pc = "dl_fetch"
    /\ calls' = Append(calls, [method |-> "GET", path |-> dl.path,
                               hasBody |-> FALSE, body |-> <<>>])
    /\ \/ \E r \in UpstreamResponses :
            IF IsRateLimited(r) /\ Len(calls) + 1 < MaxAttempts
            THEN /\ dl' = [dl EXCEPT !.seen = Append(@, r)]
                 /\ pc' = "dl_fetch"
            ELSE /\ dl' = [dl EXCEPT !.seen = Append(@, r),
                                     !.outcome = DownloadSettle(r)]
                 /\ pc' = "dl_done"
       \/ /\ dl' = [dl EXCEPT !.outcome = Outcome("throw", "network", 0, "")]
          /\ pc' = "dl_done"
    /\ UNCHANGED <<env, req, resp, steps, ex, wh, nm, ag, peer>>

\* the single fetch GET and the decision on its response
DownloadFetch ==
    /\ pc = "dl_fetch"
    /\ calls' = Append(calls, [method |-> "GET", path |-> dl.path,
                               hasBody |-> FALSE, body |-> <<>>])
    /\ \/ \E r \in UpstreamResponses :
            dl' = [dl EXCEPT !.seen = Append(@, r),
                             !.outcome = DownloadSettle(r)]
       \/ \* fetch rejects (network failure)
          dl' = [dl EXCEPT !.outcome = Outcome("throw", "network", 0, "")]
    /\ pc' = "dl_done"
    /\ UNCHANGED <<env, req, resp, steps, ex, wh, nm, ag, peer>>

NextDownload == DownloadConfig \/ DownloadFetch

\* a direct invocation of intervalsApiDownload(path)
InitDownload ==
    /\ env \in [MCP_API_KEY : {Null}, WEBHOOK_SECRET : {Null},
                INTERVALS_ICU_API_KEY : {Null, <<>>, ApiKey}]
    /\ \E p \in DownloadPaths : req = [surface |-> "download", path |-> p]
    /\ pc = "dl_config"
    /\ ex = NoEx
    /\ nm = NoNm

\* ------------------------------------------------------------------------
\* Aggregation pipelines: activities_with_details, event_completed_activity
\* ------------------------------------------------------------------------
\* the most summaries the upstream returns for a range
MaxSummaries == 22

\* the cap on detail calls per invocation
DetailCap == 20

\* one Executor call of a pipeline: what it fetches
AgCall(kind, key) == [kind |-> kind, key |-> key]

\* the linked activities an event may carry; Null: no link
LinkedIds == {Null, <<"a", "1">>}

\* the detail calls issued for n summaries, without the cap
DetailCount_Uncapped(n) == n

\* the detail calls issued for n summaries
DetailCount(n) == IF n > DetailCap THEN DetailCap ELSE n

\* a detail fetch issued whatever the event carries
HasLinkedActivity_Always(linked) == TRUE

\* the event carries a linked-activity identifier
HasLinkedActivity(linked) == linked # Null

\* activities_with_details: the summary call and its result
AwdList ==
    /\ pc = "ag_start"
    /\ req.tool = "activities_with_details"
    /\ LET c == AgCall("activities", <<>>) IN
       /\ \/ \E n \in 0..MaxSummaries :
               /\ ag' = [ag EXCEPT !.calls = Append(@, c),
                                   !.tool = req.tool, !.n = n,
                                   !.todo = DetailCount(n)]
               /\ pc' = "ag_details"
          \/ \* the Executor call fails: the pipeline fails
             /\ ag' = [ag EXCEPT !.calls = Append(@, c), !.tool = req.tool,
                                 !.outcome = "throw"]
             /\ pc' = "ag_done"
    /\ UNCHANGED <<env, req, resp, steps, calls, ex, wh, nm, dl, peer>>

\* the detail call for the next summary
AwdDetail ==
    /\ pc = "ag_details"
    /\ ag.done < ag.todo
    /\ LET c == AgCall("activity", ag.done + 1) IN
       /\ \/ /\ ag' = [ag EXCEPT !.calls = Append(@, c), !.done = @ + 1]
             /\ pc' = pc
          \/ /\ ag' = [ag EXCEPT !.calls = Append(@, c), !.outcome = "throw"]
             /\ pc' = "ag_done"
    /\ UNCHANGED <<env, req, resp, steps, calls, ex, wh, nm, dl, peer>>

\* every detail call issued: the merged document is returned
AwdReturn ==
    /\ pc = "ag_details"
    /\ ag.done = ag.todo
    /\ ag' = [ag EXCEPT !.outcome = "return"]
    /\ pc' = "ag_done"
    /\ UNCHANGED <<env, req, resp, steps, calls, ex, wh, nm, dl, peer>>

\* event_completed_activity: the event fetch and the link it carries
EcaEvent ==
    /\ pc = "ag_start"
    /\ req.tool = "event_completed_activity"
    /\ LET c == AgCall("event", req.event_id) IN
       /\ \/ \E l \in LinkedIds :
               /\ ag' = [ag EXCEPT !.calls = Append(@, c), !.tool = req.tool,
                                   !.event = TRUE, !.linked = l]
               /\ pc' = "ag_linked"
          \/ /\ ag' = [ag EXCEPT !.calls = Append(@, c), !.tool = req.tool,
                                 !.outcome = "throw"]
             /\ pc' = "ag_done"
    /\ UNCHANGED <<env, req, resp, steps, calls, ex, wh, nm, dl, peer>>

\* the link exists: fetch the activity detail and merge it under a sub-key
EcaDetail ==
    /\ pc = "ag_linked"
    /\ HasLinkedActivity(ag.linked)
    /\ LET c == AgCall("activity", ag.linked) IN
       /\ \/ ag' = [ag EXCEPT !.calls = Append(@, c),
                                !.completed = "detail", !.outcome = "return"]
          \/ ag' = [ag EXCEPT !.calls = Append(@, c), !.outcome = "throw"]
       /\ pc' = "ag_done"
    /\ UNCHANGED <<env, req, resp, steps, calls, ex, wh, nm, dl, peer>>

\* no link: the event alone with the no-completed-activity marker
EcaNoLink ==
    /\ pc = "ag_linked"
    /\ ~HasLinkedActivity(ag.linked)
    /\ ag' = [ag EXCEPT !.completed = "none", !.outcome = "return"]
    /\ pc' = "ag_done"
    /\ UNCHANGED <<env, req, resp, steps, calls, ex, wh, nm, dl, peer>>

\* the fan-out pipelines and their three sub-calls
FanTools == {"training_overview", "planning_context"}
SubCalls(tool) ==
    IF tool = "training_overview"
    THEN <<"wellness", "activities", "events">>
    ELSE <<"events", "workouts", "wellness">>

\* the aggregate returned once every sub-call has settled, failed or not
AllSucceeded_Settled(sub) == \A i \in 1..3 : sub[i] \in {"ok", "fail"}

\* every sub-call has succeeded
AllSucceeded(sub) == \A i \in 1..3 : sub[i] = "ok"

AnyFailed(sub) == \E i \in 1..3 : sub[i] = "fail"

\* a sub-call is issued: an Executor call on its own range
FanLaunch ==
    /\ pc \in {"ag_start", "ag_fan"}
    /\ req.tool \in FanTools
    /\ \E i \in 1..3 :
          /\ ag.sub[i] = "idle"
          /\ ag' = [ag EXCEPT !.tool = req.tool,
                              !.calls = Append(@, AgCall(SubCalls(req.tool)[i], i)),
                              !.sub[i] = "inflight"]
    /\ pc' = "ag_fan"
    /\ UNCHANGED <<env, req, resp, steps, calls, ex, wh, nm, dl, peer>>

\* a sub-call in flight settles: its list, or its failure
FanSettle ==
    /\ pc = "ag_fan"
    /\ \E i \in 1..3, r \in {"ok", "fail"} :
          /\ ag.sub[i] = "inflight"
          /\ ag' = [ag EXCEPT !.sub[i] = r]
    /\ pc' = pc
    /\ UNCHANGED <<env, req, resp, steps, calls, ex, wh, nm, dl, peer>>

\* the three lists, keyed by name, are returned
FanReturn ==
    /\ pc = "ag_fan"
    /\ AllSucceeded(ag.sub)
    /\ ag' = [ag EXCEPT !.parts = {i \in 1..3 : ag.sub[i] = "ok"},
                        !.outcome = "return"]
    /\ pc' = "ag_done"
    /\ UNCHANGED <<env, req, resp, steps, calls, ex, wh, nm, dl, peer>>

\* a failed sub-call fails the pipeline: what the others returned is dropped
FanFail ==
    /\ pc = "ag_fan"
    /\ AnyFailed(ag.sub)
    /\ ag' = [ag EXCEPT !.outcome = "throw"]
    /\ pc' = "ag_done"
    /\ UNCHANGED <<env, req, resp, steps, calls, ex, wh, nm, dl, peer>>

NextPipeline ==
    \/ AwdList \/ AwdDetail \/ AwdReturn
    \/ EcaEvent \/ EcaDetail \/ EcaNoLink
    \/ FanLaunch \/ FanSettle \/ FanReturn \/ FanFail

\* an invocation of one of the four pipelines
InitPipeline ==
    /\ env = [MCP_API_KEY |-> Null, WEBHOOK_SECRET |-> Null,
              INTERVALS_ICU_API_KEY |-> ApiKey]
    /\ \E t \in {"activities_with_details", "event_completed_activity"}
                  \cup FanTools :
          req = [surface |-> "pipeline", tool |-> t, event_id |-> <<"e", "1">>]
    /\ pc = "ag_start"
    /\ ex = NoEx
    /\ nm = NoNm

\* ------------------------------------------------------------------------
\* JSON values
\* ------------------------------------------------------------------------
S(chars) == <<"str">> \o chars
N(chars) == <<"num">> \o chars
JNull == <<"null">>
JTrue == <<"true">>
JFalse == <<"false">>
NaN == <<"num", "N", "a", "N">>

IsStr(v) == v # Null /\ Head(v) = "str"

\* property read: undefined (Null) when the object does not hold the key
Get(b, k) == IF k \in DOMAIN b THEN b[k] ELSE Null

\* a ?? b
Coalesce(a, b) == IF a = Null \/ a = JNull THEN b ELSE a

\* !v for a JSON value or undefined
JsFalsy(v) ==
    \/ v = Null
    \/ v = JNull
    \/ v = JFalse
    \/ v = S(<<>>)
    \/ v = N(<<"0">>)

\* String(v), also the text a template literal gives
ToText(v) ==
    CASE v = Null -> <<"u", "n", "d", "e", "f", "i", "n", "e", "d">>
      [] v = JNull -> <<"n", "u", "l", "l">>
      [] v = JTrue -> <<"t", "r", "u", "e">>
      [] v = JFalse -> <<"f", "a", "l", "s", "e">>
      [] Head(v) = "obj" -> <<"[", "o", "b", "j", "e", "c", "t", " ",
                              "O", "b", "j", "e", "c", "t", "]">>
      [] OTHER -> Tail(v)

RECURSIVE StripZeros(_)
StripZeros(t) ==
    IF Len(t) > 1 /\ Head(t) = "0" THEN StripZeros(Tail(t)) ELSE t

\* Number(text)
NumberOfText(t) ==
    LET u == Trim(t)
    IN  IF u = <<>> THEN N(<<"0">>)
        ELSE IF \A i \in 1..Len(u) : u[i] \in Digits THEN N(StripZeros(u))
        ELSE NaN

\* Number(v)
ToNumber(v) ==
    CASE v = JNull -> N(<<"0">>)
      [] v = JTrue -> N(<<"1">>)
      [] v = JFalse -> N(<<"0">>)
      [] Head(v) = "num" -> v
      [] Head(v) = "obj" -> NaN
      [] OTHER -> NumberOfText(Tail(v))

\* Boolean(v)
ToBoolean(v) == IF JsFalsy(v) THEN JFalse ELSE JTrue

\* JSON.stringify of an object: a NaN number is written as null
Stringify(o) == [k \in DOMAIN o |-> IF o[k] = NaN THEN JNull ELSE o[k]]

\* ------------------------------------------------------------------------
\* Webhook: buildEventPayload
\* ------------------------------------------------------------------------
StringFields == {"name", "description", "type", "category", "color"}
NumberFields == {"calendar_id", "distance"}

\* raw.moving_time ?? raw.movingTime ?? raw.duration
MovingTime(raw) ==
    Coalesce(Get(raw, "moving_time"),
             Coalesce(Get(raw, "movingTime"), Get(raw, "duration")))

\* the start date of a create: normalizeStartDate(raw.start_date_local ??
\* raw.startDate); Null makes buildEventPayload throw
StartDateOf(raw) ==
    normalizeStartDate(Coalesce(Get(raw, "start_date_local"),
                                Get(raw, "startDate")))

\* the payload keys when any non-null workout_doc is copied
PayloadKeys_AnyDoc(raw) ==
    {k \in StringFields \cup NumberFields \cup {"indoor"} :
        Get(raw, k) # Null /\ Get(raw, k) # JNull}
      \cup (IF MovingTime(raw) # Null /\ MovingTime(raw) # JNull
            THEN {"moving_time"} ELSE {})
      \cup (IF Get(raw, "workout_doc") # Null
               /\ Get(raw, "workout_doc") # JNull
            THEN {"workout_doc"} ELSE {})

\* the keys of the payload besides start_date_local
PayloadKeys(raw) ==
    {k \in StringFields \cup NumberFields \cup {"indoor"} :
        Get(raw, k) # Null /\ Get(raw, k) # JNull}
      \cup (IF MovingTime(raw) # Null /\ MovingTime(raw) # JNull
            THEN {"moving_time"} ELSE {})
      \cup (IF Get(raw, "workout_doc") # Null
               /\ Head(Get(raw, "workout_doc")) = "obj"
            THEN {"workout_doc"} ELSE {})

\* the payload holding every inbound key
buildEventPayload_PassAll(raw) ==
    [k \in DOMAIN raw \cup {"start_date_local"} |->
        IF k = "start_date_local" THEN S(StartDateOf(raw)) ELSE raw[k]]

\* the payload of a create whose start date is valid
buildEventPayload(raw) ==
    [k \in PayloadKeys(raw) \cup {"start_date_local"} |->
        CASE k = "start_date_local" -> S(StartDateOf(raw))
          [] k \in StringFields -> S(ToText(raw[k]))
          [] k \in NumberFields -> ToNumber(raw[k])
          [] k = "indoor" -> ToBoolean(raw[k])
          [] k = "moving_time" -> ToNumber(MovingTime(raw))
          [] OTHER -> raw[k]]

\* ------------------------------------------------------------------------
\* Webhook: POST
\* ------------------------------------------------------------------------
\* the keys the update branch takes out of the body
RoutingKeys ==
    {"event_id", "eventId", "action", "_action", "athlete_id", "athleteId"}

\* the destructuring without the two athlete id spellings
UpdateBody_KeepsAthlete(body) ==
    [k \in DOMAIN body \ {"event_id", "eventId", "action", "_action"} |->
        body[k]]

\* const { event_id, eventId, action, _action, athlete_id, athleteId,
\*         ...updateBody } = body
UpdateBody(body) == [k \in DOMAIN body \ RoutingKeys |-> body[k]]

\* contentType.includes(token); a header value is a sequence of tokens
Includes(ct, token) == \E i \in 1..Len(ct) : ct[i] = token

\* a text: empty, not JSON, the JSON of an object, the JSON of another value
TEmpty == [kind |-> "empty", obj |-> <<>>, val |-> Null]
TInvalid == [kind |-> "invalid", obj |-> <<>>, val |-> Null]
TObj(o) == [kind |-> "object", obj |-> o, val |-> Null]
TVal(v) == [kind |-> "scalar", obj |-> <<>>, val |-> v]
\* form.get(name) of a field the form does not hold
TMissing == [kind |-> "missing", obj |-> <<>>, val |-> Null]

\* the body text read as JSON: [ok, isObj, obj, val]
ParseFail == [ok |-> FALSE, isObj |-> FALSE, obj |-> <<>>, val |-> Null]
ParseText(t) ==
    CASE t.kind = "invalid" -> ParseFail
      [] t.kind = "object" ->
            [ok |-> TRUE, isObj |-> TRUE, obj |-> t.obj, val |-> Null]
      [] OTHER -> [ok |-> TRUE, isObj |-> FALSE, obj |-> <<>>, val |-> t.val]

EmptyObject == [ok |-> TRUE, isObj |-> TRUE, obj |-> <<>>, val |-> Null]

\* form.get('payload') ?? form.get('json') ?? form.get('body')
PayloadField(form) ==
    IF "payload" \in DOMAIN form THEN form["payload"]
    ELSE IF "json" \in DOMAIN form THEN form["json"]
    ELSE IF "body" \in DOMAIN form THEN form["body"]
    ELSE TMissing

\* the outcome of reading the body: a parse result, or the 400 error text
ReadBody(r) ==
    IF Includes(r.headers.ContentType, "application/json")
    THEN IF r.text.kind = "empty" THEN [err |-> "", raw |-> EmptyObject]
         ELSE IF ParseText(r.text).ok
              THEN [err |-> "", raw |-> ParseText(r.text)]
              ELSE [err |-> "Invalid JSON body", raw |-> ParseFail]
    ELSE IF Includes(r.headers.ContentType, "application/x-www-form-urlencoded")
    THEN LET f == PayloadField(r.form)
         IN  IF f.kind \in {"missing", "empty"}
             THEN [err |-> "Missing form field: payload, json, or body (JSON string)",
                   raw |-> ParseFail]
             ELSE IF ParseText(f).ok THEN [err |-> "", raw |-> ParseText(f)]
             ELSE [err |-> "Invalid JSON in payload field", raw |-> ParseFail]
    ELSE IF r.text.kind = "empty" THEN [err |-> "", raw |-> EmptyObject]
         ELSE IF ParseText(r.text).ok
              THEN [err |-> "", raw |-> ParseText(r.text)]
              ELSE [err |-> "Expected JSON body or Content-Type: application/json",
                    raw |-> ParseFail]

\* the object check letting arrays and scalars through
NotAnObject_NullOnly(raw) == ~raw.isObj /\ raw.val = JNull

\* raw === null || typeof raw !== 'object' || Array.isArray(raw)
NotAnObject(raw) == ~raw.isObj

\* the action read from the action field only
ActionValue_NoFallback(body) ==
    Coalesce(Get(body, "action"), S(<<"c", "r", "e", "a", "t", "e">>))

\* body.action ?? body._action ?? 'create'
ActionValue(body) ==
    Coalesce(Get(body, "action"),
             Coalesce(Get(body, "_action"), S(<<"c", "r", "e", "a", "t", "e">>)))

\* body.athlete_id ?? body.athleteId ?? '0'
AthleteIdOf(body) ==
    Coalesce(Get(body, "athlete_id"),
             Coalesce(Get(body, "athleteId"), S(<<"0">>)))

\* the event id read from the event_id spelling only
EventIdOf_SnakeOnly(body) == Get(body, "event_id")

\* body.event_id ?? body.eventId
EventIdOf(body) == Coalesce(Get(body, "event_id"), Get(body, "eventId"))

ActDelete == <<"d", "e", "l", "e", "t", "e">>
ActUpdate == <<"u", "p", "d", "a", "t", "e">>

\* the mapping with 500 itself counted as a client error
ErrorStatusFor_Above500(upstatus) == IF upstatus > 500 THEN 502 ELSE 400

\* response.status >= 500 ? 502 : 400
ErrorStatusFor(upstatus) == IF upstatus >= 500 THEN 502 ELSE 400

\* the catch of the handler: every thrown error becomes a 500
Caught(message) == Resp(500, "Webhook failed", 0, message)

\* the gate building the 401 without returning it
WhGate_NoReturn ==
    /\ pc = "wh_gate"
    /\ pc' = "wh_parse"
    /\ resp' = IF checkWebhookAuth(env, req.headers) THEN resp
               ELSE Resp(401, "Unauthorized", 0, "")
    /\ steps' = Append(steps, "gate")
    /\ UNCHANGED <<env, req, calls, ex, wh, nm, dl, ag, peer>>

\* if (!checkWebhookAuth(request)) return 401
WhGate ==
    /\ pc = "wh_gate"
    /\ IF checkWebhookAuth(env, req.headers)
       THEN /\ pc' = "wh_parse"
            /\ resp' = resp
       ELSE /\ pc' = "done"
            /\ resp' = Resp(401, "Unauthorized", 0, "")
    /\ steps' = Append(steps, "gate")
    /\ UNCHANGED <<env, req, calls, ex, wh, nm, dl, ag, peer>>

\* reading and parsing the body, then the object check
WhParse ==
    /\ pc = "wh_parse"
    /\ LET rb == ReadBody(req)
       IN  IF rb.err # ""
           THEN /\ resp' = Resp(400, rb.err, 0, "")
                /\ pc' = "done"
                /\ wh' = wh
           ELSE IF NotAnObject(rb.raw)
           THEN /\ resp' = Resp(400, "Body must be a JSON object", 0, "")
                /\ pc' = "done"
                /\ wh' = [wh EXCEPT !.parsed = TRUE]
           ELSE /\ resp' = resp
                /\ pc' = "wh_classify"
                /\ wh' = [wh EXCEPT !.parsed = TRUE, !.body = rb.raw.obj]
    /\ steps' = Append(steps, "parse")
    /\ UNCHANGED <<env, req, calls, ex, nm, dl, ag, peer>>

\* action, athleteId, eventId; a non-string action makes toLowerCase throw
WhClassify ==
    /\ pc = "wh_classify"
    /\ IF ~IsStr(ActionValue(wh.body))
       THEN /\ resp' = Caught("toLowerCase is not a function")
            /\ pc' = "done"
            /\ wh' = wh
       ELSE /\ resp' = resp
            /\ pc' = "wh_config"
            /\ wh' = [wh EXCEPT !.action = ToLowerCase(Tail(ActionValue(wh.body))),
                                !.athleteId = AthleteIdOf(wh.body),
                                !.eventId = EventIdOf(wh.body)]
    /\ steps' = Append(steps, "classify")
    /\ UNCHANGED <<env, req, calls, ex, nm, dl, ag, peer>>

\* the credential left unchecked until the upstream call
WhConfig_Deferred ==
    /\ pc = "wh_config"
    /\ resp' = resp
    /\ pc' = "wh_dispatch"
    /\ steps' = Append(steps, "config")
    /\ UNCHANGED <<env, req, calls, ex, wh, nm, dl, ag, peer>>

\* getIntervalsConfig(): throws when INTERVALS_ICU_API_KEY is missing
WhConfig ==
    /\ pc = "wh_config"
    /\ IF ~Truthy(env.INTERVALS_ICU_API_KEY)
       THEN /\ resp' = Caught("Missing INTERVALS_ICU_API_KEY")
            /\ pc' = "done"
       ELSE /\ resp' = resp
            /\ pc' = "wh_dispatch"
    /\ steps' = Append(steps, "config")
    /\ UNCHANGED <<env, req, calls, ex, wh, nm, dl, ag, peer>>

EventsPath(athleteId, eventId) ==
    [athlete |-> ToText(athleteId), event |-> eventId]

\* the dispatch answering 400 to an action it does not know
WhDispatch_RejectUnknown ==
    /\ pc = "wh_dispatch"
    /\ steps' = Append(steps, "validate")
    /\ IF wh.action = ActDelete
       THEN IF JsFalsy(wh.eventId)
            THEN /\ resp' = Resp(400, "Missing event_id for action \"delete\"", 0, "")
                 /\ pc' = "done"
                 /\ calls' = calls
            ELSE /\ resp' = resp
                 /\ pc' = "wh_fetch"
                 /\ calls' = Append(calls,
                       [method |-> "DELETE",
                        path |-> EventsPath(wh.athleteId, ToText(wh.eventId)),
                        hasBody |-> FALSE, body |-> <<>>])
       ELSE IF wh.action = ActUpdate
       THEN IF JsFalsy(wh.eventId)
            THEN /\ resp' = Resp(400, "Missing event_id for action \"update\"", 0, "")
                 /\ pc' = "done"
                 /\ calls' = calls
            ELSE /\ resp' = resp
                 /\ pc' = "wh_fetch"
                 /\ calls' = Append(calls,
                       [method |-> "PUT",
                        path |-> EventsPath(wh.athleteId, ToText(wh.eventId)),
                        hasBody |-> TRUE,
                        body |-> Stringify(UpdateBody(wh.body))])
       ELSE IF wh.action # <<"c", "r", "e", "a", "t", "e">>
       THEN /\ resp' = Resp(400, "Unknown action", 0, "")
            /\ pc' = "done"
            /\ calls' = calls
       ELSE IF StartDateOf(wh.body) = Null
            THEN /\ resp' = Caught("Missing or invalid start_date_local (use yyyy-MM-dd or yyyy-MM-ddT00:00:00)")
                 /\ pc' = "done"
                 /\ calls' = calls
            ELSE /\ resp' = resp
                 /\ pc' = "wh_fetch"
                 /\ calls' = Append(calls,
                       [method |-> "POST",
                        path |-> EventsPath(wh.athleteId, <<>>),
                        hasBody |-> TRUE,
                        body |-> Stringify(buildEventPayload(wh.body))])
    /\ UNCHANGED <<env, req, ex, wh, nm, dl, ag, peer>>

\* the branch taken on the action, up to the fetch it issues
WhDispatch ==
    /\ pc = "wh_dispatch"
    /\ steps' = Append(steps, "validate")
    /\ IF wh.action = ActDelete
       THEN IF JsFalsy(wh.eventId)
            THEN /\ resp' = Resp(400, "Missing event_id for action \"delete\"", 0, "")
                 /\ pc' = "done"
                 /\ calls' = calls
            ELSE /\ resp' = resp
                 /\ pc' = "wh_fetch"
                 /\ calls' = Append(calls,
                       [method |-> "DELETE",
                        path |-> EventsPath(wh.athleteId, ToText(wh.eventId)),
                        hasBody |-> FALSE, body |-> <<>>])
       ELSE IF wh.action = ActUpdate
       THEN IF JsFalsy(wh.eventId)
            THEN /\ resp' = Resp(400, "Missing event_id for action \"update\"", 0, "")
                 /\ pc' = "done"
                 /\ calls' = calls
            ELSE /\ resp' = resp
                 /\ pc' = "wh_fetch"
                 /\ calls' = Append(calls,
                       [method |-> "PUT",
                        path |-> EventsPath(wh.athleteId, ToText(wh.eventId)),
                        hasBody |-> TRUE,
                        body |-> Stringify(UpdateBody(wh.body))])
       ELSE IF StartDateOf(wh.body) = Null
            THEN /\ resp' = Caught("Missing or invalid start_date_local (use yyyy-MM-dd or yyyy-MM-ddT00:00:00)")
                 /\ pc' = "done"
                 /\ calls' = calls
            ELSE /\ resp' = resp
                 /\ pc' = "wh_fetch"
                 /\ calls' = Append(calls,
                       [method |-> "POST",
                        path |-> EventsPath(wh.athleteId, <<>>),
                        hasBody |-> TRUE,
                        body |-> Stringify(buildEventPayload(wh.body))])
    /\ UNCHANGED <<env, req, ex, wh, nm, dl, ag, peer>>

\* the upstream step with a network failure left unanswered
WhUpstream_Uncaught ==
    /\ pc = "wh_fetch"
    /\ pc' = "done"
    /\ steps' = Append(steps, "fetch")
    /\ \/ \E r \in UpstreamResponses :
            /\ wh' = [wh EXCEPT !.up = r]
            /\ resp' =
                 IF ~Ok(r)
                 THEN Resp(ErrorStatusFor(r.status), "Intervals.icu API error",
                           r.status, r.body)
                 ELSE IF Last(calls).method = "DELETE"
                 THEN Resp(200, "", r.status, "delete")
                 ELSE IF JsonParse(r.body) = "SyntaxError"
                 THEN Caught("Unexpected token")
                 ELSE Resp(200, "", r.status, JsonParse(r.body))
       \/ /\ wh' = wh
          /\ resp' = resp
    /\ UNCHANGED <<env, req, calls, ex, nm, dl, ag, peer>>

\* the upstream answer to the fetch and the response built from it
WhUpstream ==
    /\ pc = "wh_fetch"
    /\ pc' = "done"
    /\ steps' = Append(steps, "fetch")
    /\ \/ \E r \in UpstreamResponses :
            /\ wh' = [wh EXCEPT !.up = r]
            /\ resp' =
                 IF ~Ok(r)
                 THEN Resp(ErrorStatusFor(r.status), "Intervals.icu API error",
                           r.status, r.body)
                 ELSE IF Last(calls).method = "DELETE"
                 THEN Resp(200, "", r.status, "delete")
                 ELSE IF JsonParse(r.body) = "SyntaxError"
                 THEN Caught("Unexpected token")
                 ELSE Resp(200, "", r.status, JsonParse(r.body))
       \/ \* fetch rejects (network failure)
          /\ wh' = wh
          /\ resp' = Caught("fetch failed")
    /\ UNCHANGED <<env, req, calls, ex, nm, dl, ag, peer>>

\* the webhook steps with the call issued again after a 429
NextWebhook_Retry429 ==
    \/ WhGate \/ WhParse \/ WhClassify \/ WhConfig \/ WhDispatch \/ WhUpstream
    \/ /\ req.surface = "webhook"
       /\ pc = "done"
       /\ wh.up.status = 429
       /\ Len(calls) < MaxAttempts
       /\ pc' = "wh_dispatch"
       /\ resp' = NoResp
       /\ wh' = [wh EXCEPT !.up = NoUp]
       /\ UNCHANGED <<env, req, steps, calls, ex, nm, dl, ag, peer>>

NextWebhook ==
    WhGate \/ WhParse \/ WhClassify \/ WhConfig \/ WhDispatch \/ WhUpstream

\* ------------------------------------------------------------------------
\* Tool surface: GET / POST / DELETE = requireMcpApiKey(request, handler)
\* ------------------------------------------------------------------------
\* requireMcpApiKey: the 401 response, or next(request)
McpGate ==
    /\ pc = "mcp_gate"
    /\ IF McpGateAllows(env, req.headers)
       THEN /\ pc' = "mcp_handler"
            /\ resp' = resp
       ELSE /\ pc' = "done"
            /\ resp' = Resp(401, "Unauthorized", 0, "")
    /\ steps' = Append(steps, "gate")
    /\ UNCHANGED <<env, req, calls, ex, wh, nm, dl, ag, peer>>

\* handler(request): the protocol handler answers by itself, or runs a tool
\* that calls intervalsApi(path)
McpHandler ==
    /\ pc = "mcp_handler"
    /\ steps' = Append(steps, "handler")
    /\ \/ /\ pc' = "done"
          /\ resp' = Resp(200, "", 0, "protocol")
          /\ ex' = ex
       \/ /\ \E p \in Paths : ex' = [NoEx EXCEPT !.path = p]
          /\ pc' = "ex_config"
          /\ resp' = resp
    /\ UNCHANGED <<env, req, calls, wh, nm, dl, ag, peer>>

\* the tool result (or its error) is wrapped in the protocol response
McpRespond ==
    /\ pc = "ex_done"
    /\ req.surface = "mcp"
    /\ pc' = "done"
    /\ resp' = Resp(200, IF ex.outcome.kind = "throw" THEN ex.outcome.tag ELSE "",
                    ex.outcome.status, ex.outcome.data)
    /\ UNCHANGED <<env, req, steps, calls, ex, wh, nm, dl, ag, peer>>

NextMcp == McpGate \/ McpHandler \/ McpRespond

\* ------------------------------------------------------------------------
\* normalizeStartDate applied to one input
\* ------------------------------------------------------------------------
NormApply ==
    /\ pc = "norm"
    /\ nm' = [nm EXCEPT !.out = normalizeStartDate(nm.in)]
    /\ pc' = "done"
    /\ UNCHANGED <<env, req, resp, steps, calls, ex, wh, dl, ag, peer>>

\* ------------------------------------------------------------------------
\* Inputs
\* ------------------------------------------------------------------------
Pad(n) == [i \in 1..n |-> " "]
Pads == {Pad(n) : n \in 0..MaxPad}
Padded(s) == {l \o s \o r : l \in Pads, r \in Pads}

Secret == <<"s", "1">>
Other == <<"x">>

\* values after "Bearer ": the secret, another value, nothing, each padded
BearerValues == Padded(Secret) \cup Padded(Other) \cup Pads

AuthHeaders ==
    {Null}
      \cup {BearerPrefix \o v : v \in BearerValues}
      \cup {<<"B", "e", "a", "r", "e", "r">>,
            <<"b", "e", "a", "r", "e", "r", " ">> \o Secret,
            Secret}

DedicatedValues == {Null, Other} \cup Padded(Secret)

CtJson == <<"application/json">>
CtJsonCharset == <<"application/json", "; charset=utf-8">>
CtForm == <<"application/x-www-form-urlencoded">>
CtText == <<"text/plain">>
CtNone == <<>>

Headers(a, m, w, ct) ==
    [Authorization |-> a, XMcpApiKey |-> m, XWebhookSecret |-> w,
     ContentType |-> ct]

NoHeaders == Headers(Null, Null, Null, CtJson)

Date1 == <<"2", "0", "2", "6", "-", "0", "2", "-", "0", "2">>
Date2 == <<"2", "0", "2", "6", "-", "0", "3", "-", "1", "5">>

\* an object from a record of optional values: Null marks an absent key
MkObj(f) == [k \in {x \in DOMAIN f : f[x] # Null} |-> f[k]]

Merge(f, g) ==
    [k \in DOMAIN f \cup DOMAIN g |-> IF k \in DOMAIN f THEN f[k] ELSE g[k]]

ExtraKeys == {"name", "foo", "moving_time", "workout_doc"}
ExtraValue(k) ==
    CASE k = "name" -> S(<<"n">>)
      [] k = "foo" -> JTrue
      [] k = "moving_time" -> N(<<"3", "6", "0", "0">>)
      [] OTHER -> <<"obj">>
ExtraObjs ==
    {[k \in X |-> ExtraValue(k)] :
        X \in {Y \in SUBSET ExtraKeys : Cardinality(Y) <= MaxExtraKeys}}

\* bodies exercising the classification and the event id
ClassifyBodies ==
    {MkObj(f) : f \in
        [action : {Null, JNull, S(ActUpdate), S(ActDelete),
                   S(<<"U", "P", "D", "A", "T", "E">>),
                   S(<<"U", "p", "d", "a", "t", "e">>),
                   S(<<"D", "e", "l", "e", "t", "e">>),
                   S(<<"D", "E", "L", "E", "T", "E">>),
                   S(<<"c", "r", "e", "a", "t", "e">>),
                   S(<<"r", "e", "m", "o", "v", "e">>), S(<<>>),
                   N(<<"5">>)},
         _action : {Null, S(ActUpdate), S(ActDelete)},
         event_id : {Null, JNull, S(<<"e", "1">>), S(<<>>), N(<<"0">>)},
         eventId : {Null, S(<<"e", "2">>)},
         start_date_local : {Null, S(Date1)}]}

\* update bodies: routing keys in every combination, plus other keys
UpdateBodies ==
    {Merge(MkObj(f), x) :
        f \in [action : {S(ActUpdate), Null},
               _action : {Null, S(ActUpdate)},
               event_id : {Null, S(<<"e", "1">>)},
               eventId : {Null, S(<<"e", "2">>)},
               athlete_id : {Null, S(<<"7">>)},
               athleteId : {Null, N(<<"8">>)},
               start_date_local : {Null, S(Date1)}],
        x \in ExtraObjs}

StartDateValues ==
    {Null, JNull, N(<<"5">>), S(<<>>), S(<<" ">>),
     S(<<"t", "o", "m", "o", "r", "r", "o", "w">>),
     S(Date1 \o TimeSuffix)}
      \cup {S(d) : d \in Padded(Date1)}

\* create bodies: the start date under both spellings, plus other keys
CreateBodies ==
    {Merge(MkObj(f), x) :
        f \in [action : {Null, S(<<"r", "e", "m", "o", "v", "e">>)},
               start_date_local : StartDateValues,
               startDate : {Null, S(Date2), S(<<>>)}],
        x \in ExtraObjs}

SimpleCreate == [start_date_local |-> S(Date1), name |-> S(<<"n">>)]

\* what the body of a request may hold
ParseTexts ==
    {TEmpty, TInvalid, TObj(SimpleCreate), TVal(JNull), TVal(<<"arr">>),
     TVal(N(<<"5">>)), TVal(S(<<"x">>)), TVal(JTrue)}

ParseForms ==
    {<<>>} \cup {[k \in {fld} |-> t] :
                    fld \in {"payload", "json", "body"},
                    t \in {TObj(SimpleCreate), TInvalid, TEmpty, TVal(<<"arr">>),
                           TVal(JNull), TVal(N(<<"5">>)), TVal(S(<<"x">>))}}
           \cup {[k \in {"payload", "json"} |->
                    IF k = "payload" THEN TEmpty ELSE TObj(SimpleCreate)],
                 [k \in {"json", "body"} |->
                    IF k = "json" THEN TInvalid ELSE TObj(SimpleCreate)]}

ApiKeys == {Null, <<>>, ApiKey}

\* a tool-surface request: every method, gate headers and MCP_API_KEY value
InitMcp ==
    /\ env \in [MCP_API_KEY : {Null, <<>>, Secret, Secret \o <<" ">>},
                WEBHOOK_SECRET : {Null},
                INTERVALS_ICU_API_KEY : {ApiKey}]
    /\ \E m \in {"GET", "POST", "DELETE"}, a \in AuthHeaders,
          k \in DedicatedValues, w \in {Null, Secret} :
          req = [surface |-> "mcp", method |-> m,
                 headers |-> Headers(a, k, w, CtJson),
                 text |-> TEmpty, form |-> <<>>]
    /\ pc = "mcp_gate"

\* a webhook POST: gate headers and secrets in every combination
InitWebhookGate ==
    /\ env \in [MCP_API_KEY : {Null, Secret, Secret \o <<" ">>},
                WEBHOOK_SECRET : {Null, <<>>, Secret, Other},
                INTERVALS_ICU_API_KEY : {ApiKey}]
    /\ \E a \in AuthHeaders, k \in {Null, Secret}, w \in DedicatedValues,
          t \in {TObj(SimpleCreate), TInvalid} :
          req = [surface |-> "webhook", method |-> "POST",
                 headers |-> Headers(a, k, w, CtJson),
                 text |-> t, form |-> <<>>]
    /\ pc = "wh_gate"

\* a webhook POST: JSON object bodies in every combination of keys
InitWebhookBody ==
    /\ env \in [MCP_API_KEY : {Null}, WEBHOOK_SECRET : {Null, Secret},
                INTERVALS_ICU_API_KEY : ApiKeys]
    /\ \E b \in ClassifyBodies \cup UpdateBodies \cup CreateBodies,
          a \in {Null, BearerPrefix \o Other} :
          /\ (a # Null) => (b \in ClassifyBodies /\ "_action" \notin DOMAIN b)
          /\ req = [surface |-> "webhook", method |-> "POST",
                    headers |-> Headers(a, Null, Null, CtJson),
                    text |-> TObj(b), form |-> <<>>]
    /\ pc = "wh_gate"

\* a webhook POST: every body encoding
InitWebhookParse ==
    /\ env \in [MCP_API_KEY : {Null}, WEBHOOK_SECRET : {Null},
                INTERVALS_ICU_API_KEY : ApiKeys]
    /\ \E ct \in {CtJson, CtJsonCharset, CtForm, CtText, CtNone},
          t \in ParseTexts, f \in ParseForms :
          req = [surface |-> "webhook", method |-> "POST",
                 headers |-> Headers(Null, Null, Null, ct),
                 text |-> t, form |-> f]
    /\ pc = "wh_gate"

\* the documented create: start date, name, type and moving_time
ReadmeCreate ==
    [start_date_local |-> S(Date1), name |-> S(<<"n">>), type |-> S(<<"R">>),
     moving_time |-> N(<<"3", "6", "0", "0">>)]

\* the same with keys buildEventPayload does not read
NoisyCreate ==
    Merge([action |-> S(<<"C", "r", "e", "a", "t", "e">>),
           athlete_id |-> S(<<"7">>), foo |-> JTrue, id |-> N(<<"9">>)],
          ReadmeCreate)

CoerceKeys ==
    StringFields \cup NumberFields
      \cup {"indoor", "moving_time", "movingTime", "duration", "workout_doc",
            "steps", "athleteId"}

CoerceValues ==
    {JNull, JTrue, JFalse, N(<<"5">>), N(<<"0">>), S(<<>>), S(<<"x">>),
     S(<<" ", "4", "2">>), <<"arr">>, <<"obj">>}

\* create bodies holding one key of every JSON type
CoerceBodies ==
    {ReadmeCreate, NoisyCreate}
      \cup {Merge([k \in {key} |-> v], b) :
               key \in CoerceKeys, v \in CoerceValues,
               b \in {ReadmeCreate, NoisyCreate}}

\* a webhook POST creating an event: every field in every JSON type
InitWebhookCreate ==
    /\ env = [MCP_API_KEY |-> Null, WEBHOOK_SECRET |-> Null,
              INTERVALS_ICU_API_KEY |-> ApiKey]
    /\ \E b \in CoerceBodies :
          req = [surface |-> "webhook", method |-> "POST",
                 headers |-> Headers(Null, Null, Null, CtJson),
                 text |-> TObj(b), form |-> <<>>]
    /\ pc = "wh_gate"

NormInputs ==
    {Null, JNull, N(<<"5">>), <<"obj">>}
      \cup {S(p) : p \in UNION {Padded(c) : c \in
              {<<>>, Date1, Date1 \o TimeSuffix, Date1 \o <<"T">>,
               Date1 \o <<"x">>, Date1 \o <<" ", "T">>,
               <<"T">>, <<"x", "T">>, <<"T", " ", "T">>,
               <<"2", "0", "2", "6", "-", "2", "-", "0", "2">>,
               <<"2", "0", "2", "6", "/", "0", "2", "/", "0", "2">>,
               <<"2", "0", "2", "x", "-", "0", "2", "-", "0", "2", "T">>,
               <<"t", "o", "m", "o", "r", "r", "o", "w">>}}}

\* normalizeStartDate called on one value
InitNorm ==
    /\ env = [MCP_API_KEY |-> Null, WEBHOOK_SECRET |-> Null,
              INTERVALS_ICU_API_KEY |-> Null]
    /\ req = [surface |-> "norm"]
    /\ pc = "norm"

Init ==
    /\ resp = NoResp
    /\ steps = <<>>
    /\ calls = <<>>
    /\ wh = NoWh
    /\ dl = NoDl
    /\ ag = NoAg
    /\ peer = NoPeer
    /\ \/ InitExec
       \/ InitConcurrent
       \/ InitMcp /\ ex = NoEx /\ nm = NoNm
       \/ InitWebhookGate /\ ex = NoEx /\ nm = NoNm
       \/ InitWebhookBody /\ ex = NoEx /\ nm = NoNm
       \/ InitWebhookParse /\ ex = NoEx /\ nm = NoNm
       \/ InitWebhookCreate /\ ex = NoEx /\ nm = NoNm
       \/ InitDownload
       \/ InitPipeline
       \/ InitNorm /\ ex = NoEx /\ \E v \in NormInputs : nm = [in |-> v, out |-> Null]

Next == NextExec \/ NextPeer \/ NextDownload \/ NextPipeline \/ NextMcp \/ NextWebhook \/ NormApply

Spec == Init /\ [][Next]_vars

\* ------------------------------------------------------------------------
\* Properties of the executor
\* ------------------------------------------------------------------------
\* intervalsApi has returned or thrown
ExecDone == pc \in {"ex_done", "done"}

\* every upstream call of the invocation has been answered, each with a 429
AllRateLimited ==
    /\ req.surface \in {"exec", "mcp"}
    /\ calls # <<>>
    /\ Len(ex.seen) = Len(calls)
    /\ \A i \in 1..Len(ex.seen) : ex.seen[i].status = 429

\* C1: when the upstream answers 429 to every attempt, the executor makes
\* exactly 3 upstream calls and then fails with the retry-exhausted error
\* naming the request path; it never makes a 4th call and never returns a
\* value.
C1_RetryExhausted ==
    /\ Len(calls) <= 3
    /\ AllRateLimited =>
          /\ ex.outcome.kind # "return"
          /\ ExecDone =>
                /\ Len(calls) = 3
                /\ ex.outcome = Outcome("throw", "exhausted", 0, ex.path)
                /\ ex.path \in Paths
          /\ ex.outcome.kind = "throw" => ExecDone

C1_Witness ==
    /\ ExecDone
    /\ AllRateLimited
    /\ Len(calls) = 3
    /\ ex.outcome.tag = "exhausted"

\* the text a successful response decodes to: nothing for a 204, the raw
\* text for CSV, the parsed document otherwise
DecodedJ1 == "doc1"
DecodedJ2 == "doc2"

\* C2: a successful response received at attempt k (k in 0..2) after k 429
\* responses is returned, decoded, after exactly k+1 upstream calls; a 429
\* followed by a 200 returns the result of the 200 after exactly 2 calls.
C2_SuccessAfterRetries ==
    (/\ ex.seen # <<>>
     /\ Last(ex.seen).status \in 200..299
     /\ \/ Last(ex.seen).status = 204
        \/ Last(ex.seen).ctype = "text/csv; charset=utf-8"
        \/ Last(ex.seen).body \in {"j1", "j2"}) =>
        LET r == Last(ex.seen)
            k == Len(ex.seen) - 1
        IN  /\ k \in 0..2
            /\ \A i \in 1..k : ex.seen[i].status = 429
            /\ Len(calls) = k + 1
            /\ Len(ex.delays) = k
            /\ ExecDone
            /\ ex.outcome.kind = "return"
            /\ ex.outcome.status = r.status
            /\ ex.outcome.data =
                  (IF r.status = 204 THEN ""
                   ELSE IF r.ctype = "text/csv; charset=utf-8" THEN r.body
                   ELSE IF r.body = "j1" THEN DecodedJ1 ELSE DecodedJ2)

C2_Witness ==
    /\ ExecDone
    /\ Len(ex.seen) = 2
    /\ ex.seen[1].status = 429
    /\ ex.seen[2].status = 200
    /\ ex.seen[2].ctype = "application/json"
    /\ Len(calls) = 2
    /\ ex.outcome = Outcome("return", "json", 200, "doc1")

\* the last response received is neither a 2xx nor a 429
LastIsError ==
    /\ ex.seen # <<>>
    /\ ~(Last(ex.seen).status \in 200..299)
    /\ Last(ex.seen).status # 429

\* C3: on a non-2xx status other than 429 (5xx included), at whatever
\* attempt, the executor fails at once with an upstream error carrying that
\* status and the response body, having made no call after the one answered.
C3_NoRetryOnError ==
    LastIsError =>
        /\ ExecDone
        /\ Len(calls) = Len(ex.seen)
        /\ ex.outcome = Outcome("throw", "upstream", Last(ex.seen).status,
                                Last(ex.seen).body)

C3_Witness ==
    /\ LastIsError
    /\ Len(ex.seen) = 2
    /\ Last(ex.seen).status = 503
    /\ ex.outcome.tag = "upstream"
    /\ ex.outcome.status = 503

\* ------------------------------------------------------------------------
\* Properties of the webhook create
\* ------------------------------------------------------------------------
\* the inbound JSON object of a webhook request that passed the object check
Inbound == req.text.obj

\* a webhook POST with a JSON-object body (application/json) whose handling
\* has branched on the action
WebhookDispatched ==
    /\ req.surface = "webhook"
    /\ req.headers.ContentType = CtJson
    /\ req.text.kind = "object"
    /\ Len(steps) >= 5
    /\ steps[5] = "validate"

\* C4: a webhook POST whose JSON-object body is classified as create and
\* holds neither start_date_local nor startDate is answered 400 and makes
\* no upstream call.
C4_MissingDateIs400 ==
    (/\ WebhookDispatched
     /\ wh.action \notin {ActUpdate, ActDelete}
     /\ "start_date_local" \notin DOMAIN Inbound
     /\ "startDate" \notin DOMAIN Inbound)
        => (resp.status = 400 /\ calls = <<>>)

\* ------------------------------------------------------------------------
\* Properties of the access gates
\* ------------------------------------------------------------------------
Gated == req.surface \in {"mcp", "webhook"}

\* the gate has taken its decision
GateDecided == Gated /\ steps # <<>>

GateAllowed == GateDecided /\ resp.status # 401
GateRejected == GateDecided /\ resp.status = 401

\* the shared secret of the surface: MCP_API_KEY for the tools,
\* WEBHOOK_SECRET and else MCP_API_KEY for the webhook
SecretFor ==
    IF req.surface = "mcp" THEN env.MCP_API_KEY
    ELSE IF env.WEBHOOK_SECRET \notin {Null, <<>>} THEN env.WEBHOOK_SECRET
    ELSE env.MCP_API_KEY

SecretConfigured == Gated /\ SecretFor \notin {Null, <<>>}

\* the request carries "Authorization: Bearer <value>"
HasBearer ==
    /\ Gated
    /\ req.headers.Authorization # Null
    /\ Len(req.headers.Authorization) >= 7
    /\ SubSeq(req.headers.Authorization, 1, 7) = BearerPrefix

BearerValue == SubSeq(req.headers.Authorization, 8, Len(req.headers.Authorization))

\* the dedicated header of the surface
DedicatedHeader ==
    IF req.surface = "mcp" THEN req.headers.XMcpApiKey
    ELSE req.headers.XWebhookSecret

\* C5 as stated: with a secret configured, a request with a bearer value is
\* allowed exactly when that value is the secret; the secret followed by
\* whitespace is rejected.
C5_ExactBearerOnly ==
    (SecretConfigured /\ HasBearer /\ GateDecided) =>
        (GateAllowed <=> BearerValue = SecretFor)

\* C5: with a secret configured, both gates allow a request with a bearer
\* value exactly when that value, with its leading and trailing whitespace
\* removed, is the secret; the empty value is rejected.
C5_TrimmedBearer ==
    (SecretConfigured /\ HasBearer /\ GateDecided) =>
        /\ GateAllowed <=> Trim(BearerValue) = SecretFor
        /\ BearerValue = <<>> => GateRejected

C5_Witness ==
    /\ SecretConfigured
    /\ HasBearer
    /\ BearerValue = Secret \o <<" ">>
    /\ SecretFor = Secret
    /\ GateAllowed
    /\ req.surface = "webhook"

\* C6: with no secret configured the gate allows every request, whatever
\* Authorization or dedicated header it carries.
C6_OpenWhenUnconfigured ==
    (Gated /\ ~SecretConfigured) =>
        /\ resp.status # 401
        /\ GateDecided => (Len(steps) >= 2 \/ pc \in {"mcp_handler", "wh_parse"})

C6_Witness ==
    /\ req.surface = "mcp"
    /\ ~SecretConfigured
    /\ req.headers.Authorization = BearerPrefix \o Other
    /\ req.headers.XMcpApiKey = Other
    /\ Len(steps) >= 2
    /\ calls # <<>>

\* a header value as a Headers object holds it: no surrounding whitespace
Normalized(v) == v = Null \/ Trim(v) = v

\* C7: with a secret configured (one without surrounding whitespace), a
\* request whose dedicated header equals the secret is allowed whatever its
\* Authorization header contains.
C7_EitherChannel ==
    (/\ SecretConfigured
     /\ GateDecided
     /\ Normalized(SecretFor)
     /\ Normalized(req.headers.Authorization)
     /\ DedicatedHeader = SecretFor)
        => GateAllowed

\* the request shows the secret in neither channel, trimmed or not
NotPresented ==
    /\ ~(HasBearer /\ (BearerValue = SecretFor \/ Trim(BearerValue) = SecretFor))
    /\ \/ DedicatedHeader = Null
       \/ (DedicatedHeader # SecretFor /\ Trim(DedicatedHeader) # SecretFor)

\* C8: with a secret configured and not presented, the gate answers 401 and
\* the handling ends there on every method: no body is parsed, no
\* credential is resolved, no upstream call is made.
C8_RejectShortCircuits ==
    /\ (SecretConfigured /\ NotPresented /\ GateDecided) => resp.status = 401
    /\ (Gated /\ resp.status = 401) =>
          /\ pc = "done"
          /\ steps = <<"gate">>
          /\ calls = <<>>
          /\ wh = NoWh
          /\ ex = NoEx

C8_Witness ==
    /\ req.surface = "mcp"
    /\ req.method = "DELETE"
    /\ SecretConfigured
    /\ NotPresented
    /\ resp.status = 401
    /\ pc = "done"

\* ------------------------------------------------------------------------
\* Properties of the start-date normalization
\* ------------------------------------------------------------------------
NormDone == req.surface = "norm" /\ pc = "done"

\* the characters of the input, when it is a string
InChars == Tail(nm.in)

\* D is a bare yyyy-MM-dd date
IsBareDate(d) ==
    /\ Len(d) = 10
    /\ \A i \in 1..10 : IF i \in {5, 8} THEN d[i] = "-" ELSE d[i] \in Digits

ContainsT(d) == \E i \in 1..Len(d) : d[i] = "T"

\* C9 as stated: a bare date gets "T00:00:00" appended and an input that
\* contains a "T" is returned unchanged.
C9_IdentityOnT ==
    (NormDone /\ IsStr(nm.in)) =>
        /\ IsBareDate(InChars) => nm.out = InChars \o TimeSuffix
        /\ ContainsT(InChars) => nm.out = InChars

\* C9: a bare yyyy-MM-dd date D gives D followed by "T00:00:00"; an input
\* that contains a "T" gives the input with its leading and trailing
\* whitespace removed, which is the input itself when it has none.
C9_TrimmedOnT ==
    (NormDone /\ IsStr(nm.in)) =>
        /\ IsBareDate(InChars) =>
              nm.out = InChars \o <<"T", "0", "0", ":", "0", "0", ":", "0", "0">>
        /\ ContainsT(InChars) =>
              /\ nm.out = Trim(InChars)
              /\ (Head(InChars) \notin WhiteSpace /\ Last(InChars) \notin WhiteSpace)
                    => nm.out = InChars

C9_Witness ==
    /\ NormDone
    /\ nm.in = S(<<" ">> \o Date1 \o TimeSuffix)
    /\ nm.out = Date1 \o TimeSuffix

\* ------------------------------------------------------------------------
\* Properties of the webhook update
\* ------------------------------------------------------------------------
\* the request issued an upstream PUT
UpdateForwarded ==
    /\ req.surface = "webhook"
    /\ calls # <<>>
    /\ calls[1].method = "PUT"

\* C10: the body an update forwards is the inbound body minus exactly the
\* keys action, _action, event_id, eventId, athlete_id, athleteId: every
\* other key keeps its value, and a body of routing keys only is forwarded
\* as the empty object, with a body still sent.
C10_UpdateStripsRouting ==
    UpdateForwarded =>
        LET sent == calls[1].body
            routing == {"action", "_action", "event_id", "eventId",
                        "athlete_id", "athleteId"}
        IN  /\ calls[1].hasBody
            /\ DOMAIN sent = DOMAIN Inbound \ routing
            /\ \A k \in DOMAIN sent : sent[k] = Inbound[k]
            /\ DOMAIN Inbound \subseteq routing => sent = <<>>

C10_Witness ==
    /\ UpdateForwarded
    /\ {"action", "event_id", "eventId", "athlete_id", "athleteId"}
          \subseteq DOMAIN Inbound
    /\ DOMAIN calls[1].body = {"name", "start_date_local"}
    /\ calls[1].hasBody

\* an update whose body holds routing keys only
C10_EmptyWitness ==
    /\ UpdateForwarded
    /\ DOMAIN Inbound \subseteq RoutingKeys
    /\ calls[1].hasBody
    /\ calls[1].body = <<>>

\* ------------------------------------------------------------------------
\* Webhook create: workout_doc
\* a create that passed validation: its POST has been issued
CreateForwarded ==
    /\ WebhookDispatched
    /\ wh.action \notin {ActDelete, ActUpdate}
    /\ Len(calls) = 1

\* the create branch has run, whatever it decided
CreateHandled ==
    /\ WebhookDispatched
    /\ wh.action \notin {ActDelete, ActUpdate}

\* typeof v === 'object' && v !== null && !Array.isArray(v)
PlainObject(v) == v # Null /\ Head(v) = "obj"

\* workout_doc is present and is an array, a string, a number or a boolean
BadWorkoutDoc(b) ==
    /\ "workout_doc" \in DOMAIN b
    /\ Head(b["workout_doc"]) \in {"arr", "str", "num", "true", "false"}

\* C11 as stated: a create whose workout_doc is present but is an array
\* or a non-object value is rejected, so it never reaches upstream; a create
\* is forwarded with workout_doc only when workout_doc is a plain object
C11_BadDocRejected ==
    CreateHandled =>
        /\ BadWorkoutDoc(Inbound) => (Len(calls) = 0 /\ resp.status >= 400)
        /\ (Len(calls) = 1 /\ "workout_doc" \in DOMAIN calls[1].body)
              => PlainObject(Get(Inbound, "workout_doc"))

\* C11 amended: a create whose workout_doc is an array or a non-object
\* value is not rejected for it: with a valid start date it is forwarded
\* upstream without the workout_doc key; the forwarded body holds workout_doc,
\* unchanged, exactly when the inbound workout_doc is a plain object
C11_BadDocDropped ==
    CreateHandled =>
        /\ (BadWorkoutDoc(Inbound) /\ StartDateOf(Inbound) # Null)
              => /\ Len(calls) = 1
                 /\ calls[1].method = "POST"
                 /\ "workout_doc" \notin DOMAIN calls[1].body
        /\ Len(calls) = 1
              => /\ "workout_doc" \in DOMAIN calls[1].body
                      <=> PlainObject(Get(Inbound, "workout_doc"))
                 /\ "workout_doc" \in DOMAIN calls[1].body
                      => calls[1].body["workout_doc"] = Inbound["workout_doc"]

\* a create with an array workout_doc answered 200 by way of upstream
C11_Witness ==
    /\ CreateForwarded
    /\ Get(Inbound, "workout_doc") = <<"arr">>
    /\ pc = "done"
    /\ resp.status = 200

\* a create with a plain-object workout_doc forwarded with it
C11_ObjectWitness ==
    /\ CreateForwarded
    /\ "workout_doc" \in DOMAIN calls[1].body


\* ------------------------------------------------------------------------
\* Webhook: upstream errors
\* the webhook has received an upstream answer and responded
UpstreamAnswered ==
    /\ req.surface = "webhook"
    /\ pc = "done"
    /\ Len(calls) = 1
    /\ wh.up # NoUp

\* C12: in the create, update and delete branches alike, an upstream answer
\* whose status s is outside 200..299 is answered 502 when s >= 500 and 400
\* otherwise, and the response carries s and the upstream body as received
C12_UpstreamErrorMapped ==
    (UpstreamAnswered /\ wh.up.status \notin 200..299) =>
        /\ calls[1].method \in {"POST", "PUT", "DELETE"}
        /\ resp.status = (IF wh.up.status >= 500 THEN 502 ELSE 400)
        /\ resp.upstatus = wh.up.status
        /\ resp.detail = wh.up.body
        /\ resp.error = "Intervals.icu API error"

\* a delete answered 502 for an upstream 500 and its raw body
C12_Witness ==
    /\ UpstreamAnswered
    /\ calls[1].method = "DELETE"
    /\ wh.up.status = 500
    /\ wh.up.body = "garbage"
    /\ resp.status = 502

\* an update answered 400 for an upstream 404
C12_UpdateWitness ==
    /\ UpstreamAnswered
    /\ calls[1].method = "PUT"
    /\ wh.up.status = 404
    /\ resp.status = 400

\* a create answered 400 for an upstream 429
C12_CreateWitness ==
    /\ UpstreamAnswered
    /\ calls[1].method = "POST"
    /\ wh.up.status = 429
    /\ resp.status = 400


\* ------------------------------------------------------------------------
\* Webhook: the action
UpdateSpellings ==
    {S(ActUpdate), S(<<"U", "P", "D", "A", "T", "E">>),
     S(<<"U", "p", "d", "a", "t", "e">>)}
DeleteSpellings ==
    {S(ActDelete), S(<<"D", "E", "L", "E", "T", "E">>),
     S(<<"D", "e", "l", "e", "t", "e">>)}

\* the field the action is read from: action, else _action, else none
GivenAction(b) ==
    IF "action" \in DOMAIN b /\ b["action"] # JNull THEN b["action"]
    ELSE IF "_action" \in DOMAIN b /\ b["_action"] # JNull THEN b["_action"]
    ELSE Null

\* the branch the handler took, read off its upstream call or its answer
BranchTaken ==
    IF calls # <<>>
    THEN CASE calls[1].method = "DELETE" -> "delete"
           [] calls[1].method = "PUT" -> "update"
           [] OTHER -> "create"
    ELSE CASE resp.error = "Missing event_id for action \"delete\"" -> "delete"
           [] resp.error = "Missing event_id for action \"update\"" -> "update"
           [] OTHER -> "create"

\* C13: the action is the body's action field, or _action when action is
\* absent, and create when neither is present; any spelling of update
\* (update, UPDATE, Update) takes the update branch, any spelling of delete
\* takes the delete branch, and every other string takes the create branch
C13_ActionDispatch ==
    WebhookDispatched =>
        LET a == GivenAction(Inbound)
        IN  /\ a \in UpdateSpellings => BranchTaken = "update"
            /\ a \in DeleteSpellings => BranchTaken = "delete"
            /\ a = Null => BranchTaken = "create"
            /\ (a # Null /\ a \notin UpdateSpellings \cup DeleteSpellings)
                 => BranchTaken = "create"

\* _action alone, with no action field, dispatched as an update
C13_Witness ==
    /\ WebhookDispatched
    /\ "action" \notin DOMAIN Inbound
    /\ Get(Inbound, "_action") = S(ActUpdate)
    /\ calls # <<>>
    /\ calls[1].method = "PUT"

\* action spelled DELETE wins over _action and is dispatched as a delete
C13_UpperWitness ==
    /\ WebhookDispatched
    /\ Get(Inbound, "action") = S(<<"D", "E", "L", "E", "T", "E">>)
    /\ Get(Inbound, "_action") = S(ActUpdate)
    /\ calls # <<>>
    /\ calls[1].method = "DELETE"

\* action spelled Update dispatched as an update
C13_MixedWitness ==
    /\ WebhookDispatched
    /\ Get(Inbound, "action") = S(<<"U", "p", "d", "a", "t", "e">>)
    /\ calls # <<>>
    /\ calls[1].method = "PUT"


\* ------------------------------------------------------------------------
\* Webhook: the event id of an update or delete
\* the id the handler reads: event_id, or eventId when event_id is absent
\* or null
GivenEventId(b) ==
    IF "event_id" \in DOMAIN b /\ b["event_id"] # JNull THEN b["event_id"]
    ELSE IF "eventId" \in DOMAIN b THEN b["eventId"]
    ELSE Null

\* an id that is there: not absent, null, the empty string or 0
HasEventId(b) ==
    GivenEventId(b) \notin {Null, JNull, S(<<>>), N(<<"0">>), JFalse}

\* the update or delete branch has run
UpdateOrDeleteHandled ==
    /\ WebhookDispatched
    /\ GivenAction(Inbound) \in UpdateSpellings \cup DeleteSpellings

\* C14: an update or delete whose body holds neither event_id nor eventId
\* (or holds no usable id) is answered 400 and makes no upstream call; a
\* delete that carries an event id issues exactly one upstream call, a
\* DELETE of that event with no request body; an update that carries one
\* issues exactly one PUT
C14_EventIdRequired ==
    UpdateOrDeleteHandled =>
        /\ ("event_id" \notin DOMAIN Inbound /\ "eventId" \notin DOMAIN Inbound)
             => ~HasEventId(Inbound)
        /\ ~HasEventId(Inbound)
             => /\ pc = "done"
                /\ resp.status = 400
                /\ calls = <<>>
        /\ (HasEventId(Inbound) /\ GivenAction(Inbound) \in DeleteSpellings)
             => /\ Len(calls) = 1
                /\ calls[1].method = "DELETE"
                /\ ~calls[1].hasBody
                /\ calls[1].path.event = ToText(GivenEventId(Inbound))
        /\ (HasEventId(Inbound) /\ GivenAction(Inbound) \in UpdateSpellings)
             => /\ Len(calls) = 1
                /\ calls[1].method = "PUT"

\* a delete holding only eventId answered 200 after its one DELETE
C14_Witness ==
    /\ UpdateOrDeleteHandled
    /\ GivenAction(Inbound) \in DeleteSpellings
    /\ "event_id" \notin DOMAIN Inbound
    /\ Get(Inbound, "eventId") = S(<<"e", "2">>)
    /\ Len(calls) = 1
    /\ ~calls[1].hasBody
    /\ pc = "done"
    /\ resp.status = 200

\* an update holding neither spelling answered 400 without a call
C14_MissingWitness ==
    /\ UpdateOrDeleteHandled
    /\ GivenAction(Inbound) \in UpdateSpellings
    /\ "event_id" \notin DOMAIN Inbound
    /\ "eventId" \notin DOMAIN Inbound
    /\ resp.status = 400
    /\ calls = <<>>

\* a delete holding neither spelling answered 400 without a call
C14_DeleteMissingWitness ==
    /\ UpdateOrDeleteHandled
    /\ GivenAction(Inbound) \in DeleteSpellings
    /\ "event_id" \notin DOMAIN Inbound
    /\ "eventId" \notin DOMAIN Inbound
    /\ resp.status = 400
    /\ calls = <<>>


\* ------------------------------------------------------------------------
\* Webhook: bodies that are not JSON objects
IsJsonType == req.headers.ContentType \in {CtJson, CtJsonCharset}
IsFormType == req.headers.ContentType = CtForm

\* the text the handler parses: the request text, or for a form the first
\* of the fields payload, json, body that the form holds
BodyText ==
    IF IsJsonType \/ ~IsFormType THEN req.text
    ELSE CASE "payload" \in DOMAIN req.form -> req.form["payload"]
           [] "json" \in DOMAIN req.form -> req.form["json"]
           [] "body" \in DOMAIN req.form -> req.form["body"]
           [] OTHER -> TMissing

\* the text is not JSON, or is the JSON of null, an array or a scalar
NotObjectText(t) == t.kind \in {"invalid", "scalar"}

\* the handler has read the body of a webhook POST
BodyRead ==
    /\ req.surface = "webhook"
    /\ Len(steps) >= 2
    /\ steps[2] = "parse"

\* C15: a webhook POST whose body is unparsable, or parses to null, an
\* array or a scalar, is answered 400 right after the body is read, in each
\* encoding (application/json, form field, any other or no content type):
\* nothing is classified, no credential is resolved, no upstream call is made
C15_NonObjectIs400 ==
    (BodyRead /\ NotObjectText(BodyText)) =>
        /\ pc = "done"
        /\ resp.status = 400
        /\ steps = <<"gate", "parse">>
        /\ wh.action = <<>>
        /\ wh.eventId = Null
        /\ calls = <<>>

\* an array sent with no content type, and no API key set, answered 400
C15_Witness ==
    /\ BodyRead
    /\ req.headers.ContentType = CtNone
    /\ BodyText = TVal(<<"arr">>)
    /\ ~Truthy(env.INTERVALS_ICU_API_KEY)
    /\ resp.status = 400

\* text that is not JSON sent as application/json answered 400
C15_JsonWitness ==
    /\ BodyRead
    /\ IsJsonType
    /\ BodyText = TInvalid
    /\ resp.status = 400

\* the JSON null sent in the json field of a form answered 400
C15_FormWitness ==
    /\ BodyRead
    /\ IsFormType
    /\ DOMAIN req.form = {"json"}
    /\ BodyText = TVal(JNull)
    /\ req.text = TObj(SimpleCreate)
    /\ resp.status = 400


\* ------------------------------------------------------------------------
\* Webhook create: the forwarded keys
AllowList ==
    {"name", "description", "type", "category", "indoor", "calendar_id",
     "distance", "color", "moving_time", "workout_doc"}

\* C16: a create issues at most one upstream call, a POST; its body holds
\* start_date_local and otherwise only allow-listed keys, so action,
\* athlete_id and unknown keys are dropped; a create answered 200 issued
\* exactly one POST; the documented body is forwarded with its date
\* normalized and nothing else changed
C16_CreateAllowList ==
    CreateHandled =>
        /\ Len(calls) <= 1
        /\ (pc = "done" /\ resp.status = 200) => Len(calls) = 1
        /\ Len(calls) = 1 =>
             /\ calls[1].method = "POST"
             /\ calls[1].hasBody
             /\ "start_date_local" \in DOMAIN calls[1].body
             /\ DOMAIN calls[1].body \subseteq AllowList \cup {"start_date_local"}
             /\ DOMAIN Inbound \ (AllowList \cup {"start_date_local"})
                  \subseteq DOMAIN Inbound \ DOMAIN calls[1].body
        /\ (Len(calls) = 1 /\ Inbound \in {ReadmeCreate, NoisyCreate}) =>
             calls[1].body =
                [start_date_local |-> S(Date1 \o TimeSuffix),
                 name |-> S(<<"n">>), type |-> S(<<"R">>),
                 moving_time |-> N(<<"3", "6", "0", "0">>)]

\* a create holding action, athlete_id and unknown keys answered 200
C16_Witness ==
    /\ CreateForwarded
    /\ Inbound = NoisyCreate
    /\ DOMAIN calls[1].body = {"start_date_local", "name", "type", "moving_time"}
    /\ pc = "done"
    /\ resp.status = 200


\* ------------------------------------------------------------------------
\* Properties of the binary download
\* ------------------------------------------------------------------------
DownloadDone == req.surface = "download" /\ pc = "dl_done"

\* C17: intervalsApiDownload issues at most one upstream request, exactly
\* one once the API key is resolved, and settles on its answer: a 429, like
\* any status outside 200..299, makes it throw the upstream error with that
\* status at once; intervalsApi given a 429 on its first attempt does not
\* settle on it but calls upstream again
C17_DownloadNeverRetries ==
    /\ req.surface = "download" =>
         /\ Len(calls) <= 1
         /\ Len(dl.seen) <= 1
    /\ DownloadDone =>
         /\ Truthy(env.INTERVALS_ICU_API_KEY) <=> Len(calls) = 1
         /\ dl.outcome.kind \in {"throw", "return"}
         /\ \A i \in 1..Len(dl.seen) :
               dl.seen[i].status \notin 200..299 =>
                  /\ dl.outcome.kind = "throw"
                  /\ dl.outcome.tag = "upstream"
                  /\ dl.outcome.status = dl.seen[i].status
                  /\ dl.outcome.data = dl.seen[i].body
    /\ (req.surface = "exec" /\ ExecDone /\ ex.seen # <<>>
          /\ ex.seen[1].status = 429) =>
         /\ Len(calls) >= 2
         /\ ~(ex.outcome.kind = "throw" /\ ex.outcome.tag = "upstream"
                /\ ex.outcome.status = 429)

\* a download answered 429 has failed after its one request
C17_Witness ==
    /\ DownloadDone
    /\ Len(calls) = 1
    /\ dl.seen # <<>>
    /\ dl.seen[1].status = 429
    /\ dl.outcome = Outcome("throw", "upstream", 429, "j1")

\* the executor answered 429 and then 200 has returned after two requests
C17_ExecutorWitness ==
    /\ req.surface = "exec"
    /\ ExecDone
    /\ Len(ex.seen) = 2
    /\ ex.seen[1].status = 429
    /\ ex.outcome.kind = "return"
    /\ Len(calls) = 2

\* a download answered 200 without a content type has returned the bytes
C17_ReturnWitness ==
    /\ DownloadDone
    /\ dl.outcome.kind = "return"
    /\ dl.outcome.tag = "application/octet-stream"
    /\ dl.outcome.data = Base64("j2")


\* ------------------------------------------------------------------------
\* Webhook: every POST is answered
\* ------------------------------------------------------------------------
WebhookStatuses == {200, 400, 401, 500, 502}

\* the messages of the errors the handler's catch can receive
CaughtMessages ==
    {"Missing INTERVALS_ICU_API_KEY",
     "Missing or invalid start_date_local (use yyyy-MM-dd or yyyy-MM-ddT00:00:00)",
     "toLowerCase is not a function",
     "fetch failed",
     "Unexpected token"}

\* C18: a webhook POST has no response while it is handled, can always
\* take its next step, takes at most six, and ends with one response
\* whose status is 200, 400, 401, 500 or 502; a missing credential, a
\* failed start date normalization, a non-string action, a network failure
\* and an unparsable upstream success body each end in the 500 of the catch
C18_AlwaysAnswered ==
    req.surface = "webhook" =>
        /\ Len(steps) <= 6
        /\ pc # "done" => (resp = NoResp /\ ENABLED NextWebhook)
        /\ pc = "done" =>
             /\ resp.status \in WebhookStatuses
             /\ ~ENABLED NextWebhook
             /\ resp.status = 500 <=>
                  (resp.error = "Webhook failed" /\ resp.detail \in CaughtMessages)
        /\ (pc = "done" /\ Last(steps) = "config")
             => resp = Caught("Missing INTERVALS_ICU_API_KEY")
        /\ (pc = "done" /\ Last(steps) = "classify")
             => resp = Caught("toLowerCase is not a function")
        /\ (pc = "done" /\ Last(steps) = "fetch" /\ wh.up = NoUp)
             => resp = Caught("fetch failed")
        /\ (pc = "done" /\ Last(steps) = "fetch" /\ wh.up.status \in {200, 201}
              /\ wh.up.body = "garbage" /\ calls[1].method # "DELETE")
             => resp = Caught("Unexpected token")

\* the upstream call of a create failed on the network: answered 500
C18_Witness ==
    /\ req.surface = "webhook"
    /\ pc = "done"
    /\ Len(calls) = 1
    /\ wh.up = NoUp
    /\ resp = Caught("fetch failed")

\* a non-string action answered 500
C18_ActionWitness ==
    /\ req.surface = "webhook"
    /\ pc = "done"
    /\ Get(Inbound, "action") = N(<<"5">>)
    /\ resp = Caught("toLowerCase is not a function")

\* a missing credential answered 500
C18_ConfigWitness ==
    /\ req.surface = "webhook"
    /\ pc = "done"
    /\ env.INTERVALS_ICU_API_KEY = Null
    /\ resp = Caught("Missing INTERVALS_ICU_API_KEY")

\* an upstream success whose body is not JSON answered 500
C18_SyntaxWitness ==
    /\ req.surface = "webhook"
    /\ pc = "done"
    /\ wh.up.status = 200
    /\ resp = Caught("Unexpected token")

\* each of the five statuses is reached
C18_Status200 == req.surface = "webhook" /\ pc = "done" /\ resp.status = 200
C18_Status400 == req.surface = "webhook" /\ pc = "done" /\ resp.status = 400
C18_Status401 == req.surface = "webhook" /\ pc = "done" /\ resp.status = 401
C18_Status502 == req.surface = "webhook" /\ pc = "done" /\ resp.status = 502


\* ------------------------------------------------------------------------
\* Properties of the aggregation pipelines
\* ------------------------------------------------------------------------
CallsOfKind(k) == {i \in 1..Len(ag.calls) : ag.calls[i].kind = k}

InAwd == req.surface = "pipeline" /\ req.tool = "activities_with_details"
InEca == req.surface = "pipeline" /\ req.tool = "event_completed_activity"

\* C19: activities_with_details issues at most 1 summary call and at most
\* 20 detail calls, however many summaries the upstream returns; when it
\* returns, the detail calls are those of the first min(n, 20) summaries,
\* one each, and nothing is left to run for the summaries beyond the 20th
C19_DetailCallsCapped ==
    InAwd =>
        /\ Cardinality(CallsOfKind("activities")) <= 1
        /\ Cardinality(CallsOfKind("activity")) <= 20
        /\ Len(ag.calls) <= 21
        /\ \A i \in CallsOfKind("activity") :
              /\ ag.calls[i].key = i - 1
              /\ ag.calls[i].key <= 20
              /\ ag.calls[i].key <= ag.n
        /\ (pc = "ag_done" /\ ag.outcome = "return") =>
              /\ Cardinality(CallsOfKind("activities")) = 1
              /\ Cardinality(CallsOfKind("activity")) =
                    (IF ag.n > 20 THEN 20 ELSE ag.n)
        /\ pc = "ag_done" => ~ENABLED NextPipeline

\* 22 summaries returned: 1 summary call and 20 detail calls, then done
C19_Witness ==
    /\ InAwd
    /\ pc = "ag_done"
    /\ ag.outcome = "return"
    /\ ag.n = 22
    /\ Len(ag.calls) = 21

\* 3 summaries returned: 3 detail calls
C19_BelowCapWitness ==
    /\ InAwd
    /\ pc = "ag_done"
    /\ ag.outcome = "return"
    /\ ag.n = 3
    /\ Len(ag.calls) = 4

\* C20: event_completed_activity issues a detail call if and only if the
\* fetched event carries a linked-activity identifier; for an event without
\* one it returns the event with the no-completed-activity marker, has made
\* the event call and no other, and does not fail
C20_DetailIffLinked ==
    InEca =>
        /\ Len(ag.calls) <= 2
        /\ (ag.calls # <<>>)
              => ag.calls[1] = [kind |-> "event", key |-> req.event_id]
        /\ (pc = "ag_done" /\ ag.event) =>
              /\ CallsOfKind("activity") # {} <=> ag.linked # Null
              /\ ag.linked # Null =>
                    /\ Len(ag.calls) = 2
                    /\ ag.calls[2] = [kind |-> "activity", key |-> ag.linked]
                    /\ ag.outcome = "return" => ag.completed = "detail"
              /\ ag.linked = Null =>
                    /\ Len(ag.calls) = 1
                    /\ ag.outcome = "return"
                    /\ ag.completed = "none"
        /\ pc = "ag_done" => ~ENABLED NextPipeline

\* an event without a link returned with the marker after one call
C20_Witness ==
    /\ InEca
    /\ pc = "ag_done"
    /\ ag.event
    /\ ag.linked = Null
    /\ ag.completed = "none"
    /\ Len(ag.calls) = 1

\* an event with a link returned with the activity detail after two calls
C20_LinkedWitness ==
    /\ InEca
    /\ pc = "ag_done"
    /\ ag.linked = <<"a", "1">>
    /\ ag.completed = "detail"
    /\ Len(ag.calls) = 2


\* ------------------------------------------------------------------------
\* Properties of the fan-out pipelines
\* ------------------------------------------------------------------------
InFan == req.surface = "pipeline" /\ req.tool \in FanTools

\* C21: training_overview and planning_context return their aggregate only
\* when each of the three sub-calls has succeeded, and then with all three
\* parts; once a sub-call has failed, whatever the order in which the three
\* were issued and settled, the aggregate can no longer be returned, the
\* pipeline ends in failure and it holds no part of an aggregate
C21_AllOrNothing ==
    InFan =>
        /\ ag.outcome = "return" =>
              /\ \A i \in 1..3 : ag.sub[i] = "ok"
              /\ ag.parts = {1, 2, 3}
        /\ ag.outcome # "return" => ag.parts = {}
        /\ (\E i \in 1..3 : ag.sub[i] = "fail") =>
              /\ ag.outcome # "return"
              /\ ~ENABLED FanReturn
              /\ pc = "ag_done" => ag.outcome = "throw"
              /\ pc # "ag_done" => ENABLED FanFail
        /\ pc = "ag_done" =>
              /\ ag.outcome \in {"return", "throw"}
              /\ ~ENABLED NextPipeline
        /\ Len(ag.calls) <= 3

\* two sub-calls succeeded and the one settled last failed: no aggregate
C21_Witness ==
    /\ InFan
    /\ pc = "ag_done"
    /\ Cardinality({i \in 1..3 : ag.sub[i] = "ok"}) = 2
    /\ ag.sub[2] = "fail"
    /\ ag.outcome = "throw"
    /\ ag.parts = {}

\* the first sub-call failed while the others were still in flight
C21_EarlyFailWitness ==
    /\ InFan
    /\ pc = "ag_done"
    /\ ag.sub = <<"fail", "inflight", "inflight">>
    /\ ag.outcome = "throw"

\* all three succeeded: the aggregate holds the three parts
C21_ReturnWitness ==
    /\ InFan
    /\ req.tool = "planning_context"
    /\ pc = "ag_done"
    /\ ag.outcome = "return"
    /\ ag.parts = {1, 2, 3}


\* ------------------------------------------------------------------------
\* Properties of concurrent requests
\* ------------------------------------------------------------------------
Concurrent == "concurrent" \in DOMAIN req

\* the first request is waiting in the backoff delay of its attempt
InBackoff == Concurrent /\ pc = "ex_sleep"

\* C22: while one request's executor waits in a 429 backoff delay, a second
\* request in the same process can take each of its steps: it can enter the
\* executor, issue its upstream call and settle; its calls and its result
\* are its own, and the waiting request's locals are untouched by it
C22_BackoffDoesNotBlock ==
    Concurrent =>
        /\ (InBackoff /\ peer.pc # "p_done") => ENABLED NextPeer
        /\ (InBackoff /\ peer.pc = "off") => ENABLED PeerConfig
        /\ (InBackoff /\ peer.pc = "p_loop" /\ peer.attempt < 3)
             => ENABLED PeerFetch
        /\ Len(peer.calls) = Len(peer.seen)
        /\ Len(calls) \in {Len(ex.seen), Len(ex.seen) + 1}
        /\ \A i \in 1..Len(peer.calls) : peer.calls[i].path = peer.path
        /\ \A i \in 1..Len(calls) : calls[i].path = ex.path
        /\ (peer.pc = "p_done" /\ Last(peer.seen).status = 200)
             => peer.outcome = Outcome("return", "json", 200, "doc1")

\* a second request that arrived during the first backoff delay has made
\* its one call and returned while the first is still in that delay
C22_Witness ==
    /\ InBackoff
    /\ ex.attempt = 0
    /\ ex.delays = <<>>
    /\ peer.since = [pc |-> "ex_sleep", attempt |-> 0]
    /\ peer.pc = "p_done"
    /\ Len(peer.calls) = 1
    /\ peer.outcome.kind = "return"

\* both requests are in a backoff delay of their own at once
C22_BothWaitingWitness ==
    /\ InBackoff
    /\ peer.pc = "p_sleep"
    /\ ex.attempt = 2
    /\ peer.attempt = 0


\* ------------------------------------------------------------------------
\* Properties of the backoff delays
\* ------------------------------------------------------------------------
RECURSIVE SumOf(_)
SumOf(s) == IF s = <<>> THEN 0 ELSE Head(s) + SumOf(Tail(s))

RateLimitedSeen == {i \in 1..Len(ex.seen) : ex.seen[i].status = 429}

\* C23: the delay taken after the 429 of attempt k is 2^k seconds: 1000,
\* 2000 and 4000 ms for k = 0, 1, 2; every 429 is followed by its delay
\* before anything else happens, the third included, so the retry-exhausted
\* error is raised after three delays adding up to 7000 ms
C23_BackoffSchedule ==
    req.surface \in {"exec", "mcp"} =>
        /\ Len(ex.delays) <= 3
        /\ \A i \in 1..Len(ex.delays) :
              /\ ex.delays[i] = <<1000, 2000, 4000>>[i]
              /\ ex.seen[i].status = 429
        /\ pc = "ex_sleep" =>
              /\ Last(ex.seen).status = 429
              /\ Len(ex.delays) = Cardinality(RateLimitedSeen) - 1
              /\ ex.outcome.kind = "none"
        /\ pc # "ex_sleep" => Len(ex.delays) = Cardinality(RateLimitedSeen)
        /\ ex.outcome.tag = "exhausted" =>
              /\ ex.delays = <<1000, 2000, 4000>>
              /\ SumOf(ex.delays) = 7000
              /\ Len(calls) = 3

\* three 429 answers: the error is raised after delays of 1, 2 and 4 seconds
C23_Witness ==
    /\ req.surface = "exec"
    /\ ExecDone
    /\ ex.outcome.tag = "exhausted"
    /\ Cardinality(RateLimitedSeen) = 3
    /\ ex.delays = <<1000, 2000, 4000>>

\* the third 429 has been received and its delay is being waited
C23_ThirdDelayWitness ==
    /\ req.surface = "exec"
    /\ pc = "ex_sleep"
    /\ ex.attempt = 2
    /\ Len(ex.seen) = 3
    /\ ex.delays = <<1000, 2000>>


\* ------------------------------------------------------------------------
\* Webhook: no retry
\* ------------------------------------------------------------------------
\* C24: a webhook POST issues at most one upstream call and never enters
\* the executor: no attempt is counted and no backoff delay is taken; an
\* upstream 429 on its call ends the request with status 400 carrying the
\* upstream status 429
C24_WebhookNeverRetries ==
    req.surface = "webhook" =>
        /\ Len(calls) <= 1
        /\ ex = NoEx
        /\ wh.up.status = 429 =>
              /\ pc = "done"
              /\ Len(calls) = 1
              /\ resp.status = 400
              /\ resp.upstatus = 429
              /\ ~ENABLED NextWebhook

\* a delete answered 429 upstream ended with 400 after its one call
C24_Witness ==
    /\ req.surface = "webhook"
    /\ pc = "done"
    /\ Len(calls) = 1
    /\ calls[1].method = "DELETE"
    /\ wh.up.status = 429
    /\ resp.status = 400
    /\ resp.upstatus = 429


\* ------------------------------------------------------------------------
\* Webhook: unrecognised actions
\* ------------------------------------------------------------------------
\* the action given is a string that is no spelling of update or delete
UnrecognisedAction(b) ==
    /\ GivenAction(b) # Null
    /\ Head(GivenAction(b)) = "str"
    /\ GivenAction(b) \notin UpdateSpellings \cup DeleteSpellings

\* C25: an action string that is no spelling of update or delete ("remove",
\* "", "create") takes the create branch: the only upstream call it can
\* lead to is the POST creating an event, and with a start date in the body
\* that POST is issued, with the date normalized, instead of a client error
\* being returned for the action
C25_UnknownActionCreates ==
    (WebhookDispatched /\ UnrecognisedAction(Inbound)) =>
        /\ BranchTaken = "create"
        /\ Len(calls) <= 1
        /\ calls # <<>> =>
              /\ calls[1].method = "POST"
              /\ calls[1].path.event = <<>>
        /\ Get(Inbound, "start_date_local") = S(Date1) =>
              /\ Len(calls) = 1
              /\ calls[1].body["start_date_local"] = S(Date1 \o TimeSuffix)
              /\ (pc = "done" /\ wh.up.status \in {200, 201}
                    /\ wh.up.body \in {"j1", "j2"}) => resp.status = 200
              /\ (pc = "done" /\ resp.status = 400) => resp.upstatus >= 300

\* action "remove" with a start date answered 200 after a POST
C25_Witness ==
    /\ WebhookDispatched
    /\ Get(Inbound, "action") = S(<<"r", "e", "m", "o", "v", "e">>)
    /\ Get(Inbound, "start_date_local") = S(Date1)
    /\ Len(calls) = 1
    /\ calls[1].method = "POST"
    /\ pc = "done"
    /\ resp.status = 200

\* the empty action with a start date and an event id creates as well
C25_EmptyWitness ==
    /\ WebhookDispatched
    /\ Get(Inbound, "action") = S(<<>>)
    /\ Get(Inbound, "event_id") = S(<<"e", "1">>)
    /\ Len(calls) = 1
    /\ calls[1].method = "POST"


\* ------------------------------------------------------------------------
\* Webhook: the order of the checks
\* ------------------------------------------------------------------------
CheckOrder == <<"gate", "parse", "classify", "config", "validate", "fetch">>

\* the body as sent is not a JSON object
MalformedBody == NotObjectText(BodyText)

\* C26: the webhook runs access gate, body parse with the object check,
\* (action classification,) credential resolution, per-action validation
\* and upstream call in that order, and the first check that fails ends
\* the request: a request the gate rejects gets 401 even with a malformed
\* body; a malformed body gets 400 even with the API key missing; with the
\* API key missing, a request that passed the gate with a JSON object gets
\* 500 and no upstream call, an update or delete without event id included
C26_FirstFailureDecides ==
    req.surface = "webhook" =>
        /\ Len(steps) <= 6
        /\ \A i \in 1..Len(steps) : steps[i] = CheckOrder[i]
        /\ (pc = "done" /\ Last(steps) = "gate") => resp.status = 401
        /\ (pc = "done" /\ Last(steps) = "parse") => resp.status = 400
        /\ (pc = "done" /\ Last(steps) \in {"classify", "config"})
              => resp.status = 500
        /\ (pc = "done" /\ Last(steps) = "validate")
              => (resp.status \in {400, 500} /\ calls = <<>>)
        /\ (SecretConfigured /\ NotPresented /\ GateDecided)
              => (resp.status = 401 /\ steps = <<"gate">>)
        /\ (pc = "done" /\ resp.status # 401 /\ MalformedBody)
              => (resp.status = 400 /\ steps = <<"gate", "parse">>)
        /\ ~Truthy(env.INTERVALS_ICU_API_KEY) =>
              /\ calls = <<>>
              /\ "validate" \notin {steps[i] : i \in 1..Len(steps)}
              /\ (pc = "done" /\ resp.status # 401 /\ BodyRead
                    /\ ~MalformedBody /\ BodyText.kind = "object")
                   => resp.status = 500

\* a delete without event id, the API key missing: 500, not 400
C26_Witness ==
    /\ req.surface = "webhook"
    /\ pc = "done"
    /\ ~Truthy(env.INTERVALS_ICU_API_KEY)
    /\ BodyText.kind = "object"
    /\ GivenAction(Inbound) \in DeleteSpellings
    /\ ~HasEventId(Inbound)
    /\ resp = Caught("Missing INTERVALS_ICU_API_KEY")
    /\ calls = <<>>

\* a request the gate rejects, its body not JSON: 401, nothing parsed
C26_UnauthorizedWitness ==
    /\ req.surface = "webhook"
    /\ pc = "done"
    /\ SecretConfigured
    /\ NotPresented
    /\ req.text = TInvalid
    /\ resp.status = 401
    /\ steps = <<"gate">>

====
